---------------------------- MODULE Spec2Model ----------------------------
(***************************************************************************)
(* Transcript analysis and summary rendering of the hook scripts:          *)
(*   hooks/utils/transcript_analyzer.py  (TranscriptAnalyzer)              *)
(*   hooks/utils/summary_generator.py    (SummaryGenerator)                *)
(*                                                                         *)
(* Python strings are TLA+ strings (TLC evaluates Len, \o and SubSeq on    *)
(* them).  A value whose type the code does not know (anything that comes  *)
(* out of json.loads) is a tagged record, so that isinstance checks,       *)
(* attribute errors and type errors can be modelled.  A Python dict is the *)
(* sequence of its <<key, value>> pairs in insertion order.                *)
(***************************************************************************)
EXTENDS Integers, Sequences, FiniteSets, TLC

(***************************************************************************)
(* Bounds of the model.                                                    *)
(***************************************************************************)
\* Longest transcript, in lines.
MaxLines == 2
\* Number of analyze_transcript calls made on one source.
MaxCalls == 2

(***************************************************************************)
(* Python str methods.                                                     *)
(***************************************************************************)
Whitespace == {" ", "\t", "\n", "\r", "\f"}

CharAt(s, i) == SubSeq(s, i, i)

\* s[:n]
Prefix(s, n) == IF n >= Len(s) THEN s ELSE SubSeq(s, 1, n)

\* pat in s
Contains(s, pat) ==
  \E i \in 1..(Len(s) - Len(pat) + 1) : SubSeq(s, i, i + Len(pat) - 1) = pat

\* s.startswith(pat)
StartsWith(s, pat) == Len(pat) <= Len(s) /\ SubSeq(s, 1, Len(pat)) = pat

UpperChars == "ABCDEFGHIJKLMNOPQRSTUVWXYZ"
LowerChars == "abcdefghijklmnopqrstuvwxyz"

LowerChar(c) ==
  IF \E i \in 1..Len(UpperChars) : CharAt(UpperChars, i) = c
  THEN CharAt(LowerChars, CHOOSE i \in 1..Len(UpperChars) : CharAt(UpperChars, i) = c)
  ELSE c

\* s.lower()
RECURSIVE Lower(_)
Lower(s) == IF s = "" THEN "" ELSE LowerChar(CharAt(s, 1)) \o Lower(SubSeq(s, 2, Len(s)))

\* s.rstrip()
RECURSIVE RStrip(_)
RStrip(s) ==
  IF s # "" /\ CharAt(s, Len(s)) \in Whitespace THEN RStrip(SubSeq(s, 1, Len(s) - 1)) ELSE s

\* s.lstrip()
RECURSIVE LStrip(_)
LStrip(s) ==
  IF s # "" /\ CharAt(s, 1) \in Whitespace THEN LStrip(SubSeq(s, 2, Len(s))) ELSE s

\* s.strip()
Strip(s) == LStrip(RStrip(s))

\* s.rfind(c) for a one-character c: the 0-based index of its last occurrence, or -1
RFind(s, c) ==
  IF \E i \in 1..Len(s) : CharAt(s, i) = c
  THEN (CHOOSE i \in 1..Len(s) :
          CharAt(s, i) = c /\ \A j \in (i + 1)..Len(s) : CharAt(s, j) # c) - 1
  ELSE -1

\* sep.join(parts)
RECURSIVE Join(_, _)
Join(sep, parts) ==
  IF parts = <<>> THEN ""
  ELSE IF Len(parts) = 1 THEN parts[1]
  ELSE parts[1] \o sep \o Join(sep, Tail(parts))

\* seq[-n:]
LastN(seq, n) == IF Len(seq) <= n THEN seq ELSE SubSeq(seq, Len(seq) - n + 1, Len(seq))

\* seq[:n]
FirstN(seq, n) == IF Len(seq) <= n THEN seq ELSE SubSeq(seq, 1, n)

(***************************************************************************)
(* Values of unknown type: what json.loads returns.                        *)
(***************************************************************************)
JNull == [t |-> "null"]
JBool(b) == [t |-> "bool", b |-> b]
JNum(n) == [t |-> "num", n |-> n]
JStr(s) == [t |-> "str", s |-> s]
JList(l) == [t |-> "list", l |-> l]
JObj(p) == [t |-> "dict", p |-> p]

IsStr(v) == v.t = "str"
IsList(v) == v.t = "list"
IsDict(v) == v.t = "dict"

\* type(v).__name__
TypeName(v) ==
  CASE v.t = "null" -> "NoneType"
    [] v.t = "bool" -> "bool"
    [] v.t = "num" -> "int"
    [] v.t = "str" -> "str"
    [] v.t = "list" -> "list"
    [] v.t = "dict" -> "dict"

\* bool(v)
Truthy(v) ==
  CASE v.t = "null" -> FALSE
    [] v.t = "bool" -> v.b
    [] v.t = "num" -> v.n # 0
    [] v.t = "str" -> v.s # ""
    [] v.t = "list" -> v.l # <<>>
    [] v.t = "dict" -> v.p # <<>>

\* key in d, for a dict d
HasKey(d, key) == \E i \in 1..Len(d.p) : d.p[i][1] = key

\* d.get(key, default), for a dict d
Get(d, key, default) ==
  IF HasKey(d, key) THEN d.p[CHOOSE i \in 1..Len(d.p) : d.p[i][1] = key][2] ELSE default

\* hash(v) succeeds (v may be tested for membership in a set)
Hashable(v) == v.t \notin {"list", "dict"}

\* repr(v); the strings of the model hold no quote and no backslash
RECURSIVE Repr(_)
RECURSIVE ReprItems(_)
RECURSIVE ReprPairs(_)
ReprItems(l) ==
  IF l = <<>> THEN <<>> ELSE <<Repr(Head(l))>> \o ReprItems(Tail(l))
ReprPairs(p) ==
  IF p = <<>> THEN <<>>
  ELSE <<"'" \o Head(p)[1] \o "': " \o Repr(Head(p)[2])>> \o ReprPairs(Tail(p))
Repr(v) ==
  CASE v.t = "null" -> "None"
    [] v.t = "bool" -> (IF v.b THEN "True" ELSE "False")
    [] v.t = "num" -> ToString(v.n)
    [] v.t = "str" -> "'" \o v.s \o "'"
    [] v.t = "list" -> "[" \o Join(", ", ReprItems(v.l)) \o "]"
    [] v.t = "dict" -> "{" \o Join(", ", ReprPairs(v.p)) \o "}"

\* str(v)
Str(v) == IF v.t = "str" THEN v.s ELSE Repr(v)

\* The message of the AttributeError raised by v.attr
NoAttribute(v, attr) ==
  "'" \o TypeName(v) \o "' object has no attribute '" \o attr \o "'"

(***************************************************************************)
(* pathlib.Path(p).name for a str p: the last component of the path, where *)
(* empty components and "." components do not count.                       *)
(***************************************************************************)
RECURSIVE PathParts(_, _, _)
PathParts(p, cur, acc) ==
  LET done == IF cur = "" \/ cur = "." THEN acc ELSE Append(acc, cur)
  IN IF p = "" THEN done
     ELSE IF CharAt(p, 1) = "/" THEN PathParts(SubSeq(p, 2, Len(p)), "", done)
     ELSE PathParts(SubSeq(p, 2, Len(p)), cur \o CharAt(p, 1), acc)

PathName(p) ==
  LET parts == PathParts(p, "", <<>>)
  IN IF parts = <<>> THEN "" ELSE parts[Len(parts)]

(***************************************************************************)
(* Results of code that may raise: Ok(v) is a return, Raise(m) an          *)
(* exception whose str() is m.                                             *)
(***************************************************************************)
Ok(v) == [raised |-> FALSE, val |-> v]
Raise(m) == [raised |-> TRUE, msg |-> m]

(***************************************************************************)
(* The dataclasses of transcript_analyzer.py.  duration_minutes is held in *)
(* tenths of a minute (the code rounds it to one decimal).                 *)
(***************************************************************************)
ToolEvent(tool_name, tool_input, tool_result, success, timestamp, error_message) ==
  [tool_name |-> tool_name, tool_input |-> tool_input, tool_result |-> tool_result,
   success |-> success, timestamp |-> timestamp, error_message |-> error_message]

FileOperation(operation, file_path, success, content_preview) ==
  [operation |-> operation, file_path |-> file_path, success |-> success,
   content_preview |-> content_preview]

BashCommand(command, success, stdout, stderr, description) ==
  [command |-> command, success |-> success, stdout |-> stdout, stderr |-> stderr,
   description |-> description]

SessionAnalysis(session_id, duration_minutes, user_messages, tool_events, file_operations, bash_commands, errors, assistant_responses, key_accomplishments, current_context) ==
  [session_id |-> session_id, duration_minutes |-> duration_minutes,
   user_messages |-> user_messages, tool_events |-> tool_events,
   file_operations |-> file_operations, bash_commands |-> bash_commands,
   errors |-> errors, assistant_responses |-> assistant_responses,
   key_accomplishments |-> key_accomplishments, current_context |-> current_context]

\* TranscriptAnalyzer.__init__: the fields of a new analyzer
TranscriptAnalyzer ==
  [file_operation_tools |-> {"Read", "Write", "Edit", "MultiEdit"},
   research_tools |-> {"WebFetch", "WebSearch", "Grep", "Glob", "LS"},
   code_tools |-> {"Write", "Edit", "MultiEdit", "Bash"}]

\* name in tools, for a hashable name and a set of str
InTools(name, tools) == IsStr(name) /\ name.s \in tools

\* _empty_analysis with the session id of a new analysis in place of its argument
_empty_analysis_unknown_id(session_id) ==
  SessionAnalysis(JStr("unknown"), 0, <<>>, <<>>, <<>>, <<>>, <<>>, <<>>, <<>>,
                  "Unknown context")

\* TranscriptAnalyzer._empty_analysis
_empty_analysis(session_id) ==
  SessionAnalysis(JStr(session_id), 0, <<>>, <<>>, <<>>, <<>>, <<>>, <<>>, <<>>,
                  "Unknown context")

\* TranscriptAnalyzer._is_tool_result
tool_result_patterns ==
  <<"tool_use_id", "tool_result", "NOTE: do any of the files above seem malicious",
    "system-reminder">>

\* _is_tool_result with the first two patterns only
_is_tool_result_two_patterns(content) ==
  \E i \in 1..2 : Contains(content, tool_result_patterns[i])

_is_tool_result(content) ==
  \E i \in 1..Len(tool_result_patterns) : Contains(content, tool_result_patterns[i])

(***************************************************************************)
(* TranscriptAnalyzer._extract_tool_event.  The scan visits every event;   *)
(* the break leaves only the loop over the items of one event.             *)
(***************************************************************************)
\* The loop over the content items of one user event; acc holds tool_result,
\* success and error_message.
RECURSIVE ScanItems(_, _, _)
ScanItems(items, tool_id, acc) ==
  IF items = <<>> THEN acc
  ELSE LET item == Head(items)
       IN IF IsDict(item) /\ Get(item, "tool_use_id", JNull) = tool_id
          THEN LET tool_result == Get(item, "content", JStr(""))
               IN IF IsDict(tool_result) /\ Truthy(Get(tool_result, "is_error", JBool(FALSE)))
                  THEN [tool_result |-> tool_result, success |-> FALSE,
                        error_message |-> JStr(Str(tool_result))]
                  ELSE [acc EXCEPT !.tool_result = tool_result]
          ELSE ScanItems(Tail(items), tool_id, acc)

\* The loop over all events.
RECURSIVE ScanEvents(_, _, _)
ScanEvents(all_events, tool_id, acc) ==
  IF all_events = <<>> THEN Ok(acc)
  ELSE LET event == Head(all_events)
       IN IF ~IsDict(event) THEN Raise(NoAttribute(event, "get"))
          ELSE IF /\ Get(event, "type", JNull) = JStr("user")
                  /\ HasKey(event, "message")
                  /\ IsDict(Get(event, "message", JNull))
               THEN LET content == Get(Get(event, "message", JNull), "content", JNull)
                    IN IF IsList(content)
                       THEN ScanEvents(Tail(all_events), tool_id,
                                       ScanItems(content.l, tool_id, acc))
                       ELSE ScanEvents(Tail(all_events), tool_id, acc)
               ELSE ScanEvents(Tail(all_events), tool_id, acc)

\* Lines 233-240: the ToolEvent built from what the loops found
FoundToolEvent(tool_item, scan) ==
  IF scan.raised THEN scan
  ELSE Ok(ToolEvent(Get(tool_item, "name", JStr("")), Get(tool_item, "input", JObj(<<>>)),
                    scan.val.tool_result, scan.val.success, "", scan.val.error_message))

_extract_tool_event(tool_item, all_events) ==
  FoundToolEvent(tool_item,
                 ScanEvents(all_events, Get(tool_item, "id", JStr("")),
                            [tool_result |-> JNull, success |-> TRUE,
                             error_message |-> JNull]))

(***************************************************************************)
(* TranscriptAnalyzer._extract_file_operation                              *)
(***************************************************************************)
\* operation_map without the entry of MultiEdit
operation_map_without_multiedit(tool_name) ==
  CASE tool_name = "Read" -> "read"
    [] tool_name = "Write" -> "write"
    [] tool_name = "Edit" -> "edit"
    [] OTHER -> "unknown"

operation_map(tool_name) ==
  CASE tool_name = "Read" -> "read"
    [] tool_name = "Write" -> "write"
    [] tool_name = "Edit" -> "edit"
    [] tool_name = "MultiEdit" -> "edit"
    [] OTHER -> "unknown"

PreviewLen == 100

\* content[:100] + '...' if len(content) > 100 else content
ContentPreview(content) ==
  CASE content.t = "str" ->
         Ok(IF Len(content.s) > PreviewLen
            THEN JStr(Prefix(content.s, PreviewLen) \o "...") ELSE content)
    [] content.t = "list" ->
         IF Len(content.l) > PreviewLen
         THEN Raise("can only concatenate list (not \"str\") to list") ELSE Ok(content)
    [] content.t = "dict" ->
         IF Len(content.p) > PreviewLen
         THEN Raise("unhashable type: 'slice'") ELSE Ok(content)
    [] OTHER -> Raise("object of type '" \o TypeName(content) \o "' has no len()")

_extract_file_operation(analyzer, tool_event) ==
  IF ~InTools(tool_event.tool_name, analyzer.file_operation_tools) THEN Ok(JNull)
  ELSE IF ~IsDict(tool_event.tool_input)
       THEN Raise(NoAttribute(tool_event.tool_input, "get"))
  ELSE LET operation == operation_map(tool_event.tool_name.s)
           file_path == Get(tool_event.tool_input, "file_path", JStr(""))
           content_preview ==
             IF operation = "write"
             THEN ContentPreview(Get(tool_event.tool_input, "content", JStr("")))
             ELSE IF operation = "edit"
             THEN ContentPreview(Get(tool_event.tool_input, "new_string", JStr("")))
             ELSE Ok(JNull)
       IN IF content_preview.raised THEN content_preview
          ELSE Ok(FileOperation(operation, file_path, tool_event.success,
                                content_preview.val))

(***************************************************************************)
(* TranscriptAnalyzer._extract_bash_command                                *)
(***************************************************************************)
_extract_bash_command(tool_event) ==
  IF tool_event.tool_name # JStr("Bash") THEN Ok(JNull)
  ELSE IF ~IsDict(tool_event.tool_input)
       THEN Raise(NoAttribute(tool_event.tool_input, "get"))
  ELSE LET command == Get(tool_event.tool_input, "command", JStr(""))
           description == Get(tool_event.tool_input, "description", JStr(""))
           stdout == IF IsDict(tool_event.tool_result)
                     THEN Get(tool_event.tool_result, "stdout", JStr(""))
                     ELSE IF IsStr(tool_event.tool_result) THEN tool_event.tool_result
                     ELSE JStr("")
           stderr == IF IsDict(tool_event.tool_result)
                     THEN Get(tool_event.tool_result, "stderr", JStr(""))
                     ELSE JStr("")
       IN Ok(BashCommand(command, tool_event.success, stdout, stderr, description))

(***************************************************************************)
(* TranscriptAnalyzer._calculate_duration.  datetime.fromisoformat is      *)
(* modelled for the form YYYY-MM-DD?HH:MM:SS with an optional +HH:MM or    *)
(* -HH:MM offset; every other string is taken to raise ValueError.         *)
(***************************************************************************)
Digits == "0123456789"

IsDigit(c) == \E i \in 1..Len(Digits) : CharAt(Digits, i) = c

DigitVal(c) == (CHOOSE i \in 1..Len(Digits) : CharAt(Digits, i) = c) - 1

AllDigits(s) == \A i \in 1..Len(s) : IsDigit(CharAt(s, i))

RECURSIVE ParseInt(_)
ParseInt(s) ==
  IF s = "" THEN 0
  ELSE 10 * ParseInt(SubSeq(s, 1, Len(s) - 1)) + DigitVal(CharAt(s, Len(s)))

\* s.replace('Z', '+00:00')
RECURSIVE ReplaceZ(_)
ReplaceZ(s) ==
  IF s = "" THEN ""
  ELSE (IF CharAt(s, 1) = "Z" THEN "+00:00" ELSE CharAt(s, 1))
       \o ReplaceZ(SubSeq(s, 2, Len(s)))

IsLeap(y) == (y % 4 = 0 /\ y % 100 # 0) \/ y % 400 = 0

DaysInMonth(y, m) ==
  IF m = 2 THEN (IF IsLeap(y) THEN 29 ELSE 28)
  ELSE IF m \in {4, 6, 9, 11} THEN 30 ELSE 31

\* date(y, m, d).toordinal()
RECURSIVE DaysBeforeMonth(_, _)
DaysBeforeMonth(y, m) ==
  IF m = 1 THEN 0 ELSE DaysBeforeMonth(y, m - 1) + DaysInMonth(y, m - 1)

Ordinal(y, m, d) ==
  LET p == y - 1
  IN p * 365 + p \div 4 - p \div 100 + p \div 400 + DaysBeforeMonth(y, m) + d

\* Seconds are counted from 2000-01-01, within 32 bits.
EpochOrdinal == Ordinal(2000, 1, 1)

\* datetime.fromisoformat(s): [aware, secs] (secs in UTC when aware), or ValueError
fromisoformat(s) ==
  LET invalid == Raise("Invalid isoformat string: '" \o s \o "'")
      n == Len(s)
  IN IF n \notin {19, 25} THEN invalid
     ELSE IF ~(/\ AllDigits(SubSeq(s, 1, 4)) /\ CharAt(s, 5) = "-"
               /\ AllDigits(SubSeq(s, 6, 7)) /\ CharAt(s, 8) = "-"
               /\ AllDigits(SubSeq(s, 9, 10)) /\ ~IsDigit(CharAt(s, 11))
               /\ AllDigits(SubSeq(s, 12, 13)) /\ CharAt(s, 14) = ":"
               /\ AllDigits(SubSeq(s, 15, 16)) /\ CharAt(s, 17) = ":"
               /\ AllDigits(SubSeq(s, 18, 19)))
          THEN invalid
     ELSE IF n = 25 /\ ~(/\ CharAt(s, 20) \in {"+", "-"}
                         /\ AllDigits(SubSeq(s, 21, 22)) /\ CharAt(s, 23) = ":"
                         /\ AllDigits(SubSeq(s, 24, 25)))
          THEN invalid
     ELSE LET y == ParseInt(SubSeq(s, 1, 4))
              mo == ParseInt(SubSeq(s, 6, 7))
              d == ParseInt(SubSeq(s, 9, 10))
              h == ParseInt(SubSeq(s, 12, 13))
              mi == ParseInt(SubSeq(s, 15, 16))
              se == ParseInt(SubSeq(s, 18, 19))
              oh == IF n = 25 THEN ParseInt(SubSeq(s, 21, 22)) ELSE 0
              om == IF n = 25 THEN ParseInt(SubSeq(s, 24, 25)) ELSE 0
              off == (IF n = 25 /\ CharAt(s, 20) = "-" THEN -1 ELSE 1) * (oh * 3600 + om * 60)
          IN IF \/ y < 1 \/ mo \notin 1..12 \/ d < 1 \/ h > 23 \/ mi > 59 \/ se > 59
                \/ oh > 23 \/ om > 59
             THEN invalid
             ELSE IF d > DaysInMonth(y, mo) THEN invalid
             ELSE Ok([aware |-> n = 25,
                      secs |-> (Ordinal(y, mo, d) - EpochOrdinal) * 86400
                               + h * 3600 + mi * 60 + se - off])

\* Differences (in seconds, below 240) whose sixtieth lies, as a double, above the
\* midpoint of two tenths: round(d / 60, 1) rounds these up.
TiesRoundedUp ==
  {3, 27, 33, 39, 45, 63, 81, 93, 105, 111, 141, 147, 165, 171, 177, 201, 207, 225,
   231, 237}

\* round(secs / 60, 1), in tenths, for secs >= 0
RoundTenthsAbs(secs) ==
  LET lo == secs \div 6
      r == secs % 6
  IN CASE r < 3 -> lo
       [] r > 3 -> lo + 1
       [] r = 3 /\ secs % 30 = 15 -> (IF lo % 2 = 0 THEN lo ELSE lo + 1)
       [] r = 3 /\ secs % 30 # 15 /\ secs < 240 ->
            (IF secs \in TiesRoundedUp THEN lo + 1 ELSE lo)

RoundTenths(secs) == IF secs < 0 THEN -RoundTenthsAbs(-secs) ELSE RoundTenthsAbs(secs)

\* _calculate_duration between the first two timestamps
_calculate_duration_first_two(timestamps) ==
  IF Len(timestamps) < 2 THEN 0
  ELSE LET first == timestamps[1]
           last == timestamps[2]
       IN IF ~IsStr(first) \/ ~IsStr(last) THEN 0
          ELSE LET start_time == fromisoformat(ReplaceZ(first.s))
                   end_time == fromisoformat(ReplaceZ(last.s))
               IN IF start_time.raised \/ end_time.raised THEN 0
                  ELSE IF start_time.val.aware # end_time.val.aware THEN 0
                  ELSE RoundTenths(end_time.val.secs - start_time.val.secs)

\* timestamps holds what the events carried under 'timestamp' (any truthy value)
_calculate_duration(timestamps) ==
  IF Len(timestamps) < 2 THEN 0
  ELSE LET first == timestamps[1]
           last == timestamps[Len(timestamps)]
       IN IF ~IsStr(first) \/ ~IsStr(last) THEN 0
          ELSE LET start_time == fromisoformat(ReplaceZ(first.s))
                   end_time == fromisoformat(ReplaceZ(last.s))
               IN IF start_time.raised \/ end_time.raised THEN 0
                  ELSE IF start_time.val.aware # end_time.val.aware THEN 0
                  ELSE RoundTenths(end_time.val.secs - start_time.val.secs)

(***************************************************************************)
(* TranscriptAnalyzer._identify_accomplishments                            *)
(***************************************************************************)
\* any(keyword in text for keyword in keywords)
AnyKeyword(text, keywords) == \E i \in 1..Len(keywords) : Contains(text, keywords[i])

\* The keywords of build commands of the stop summary
accomplishment_build_keywords_of_summary == <<"build", "compile", "npm run", "yarn", "make">>

accomplishment_build_keywords == <<"build", "compile", "npm", "yarn">>

\* _identify_accomplishments counting the failed file operations too
_identify_accomplishments_any_outcome(analyzer, file_ops, bash_cmds, tool_events) ==
  LET files_created == SelectSeq(file_ops, LAMBDA op : op.operation = "write")
      files_modified == SelectSeq(file_ops, LAMBDA op : op.operation = "edit")
      successful_commands == SelectSeq(bash_cmds, LAMBDA cmd : cmd.success)
      bad == SelectSeq(successful_commands, LAMBDA cmd : ~IsStr(cmd.command))
      test_commands ==
        SelectSeq(successful_commands, LAMBDA cmd : Contains(Lower(cmd.command.s), "test"))
      build_commands ==
        SelectSeq(successful_commands,
                  LAMBDA cmd : AnyKeyword(Lower(cmd.command.s), accomplishment_build_keywords))
      unhashable == SelectSeq(tool_events, LAMBDA event : ~Hashable(event.tool_name))
      research_tools_used ==
        SelectSeq(tool_events, LAMBDA event : InTools(event.tool_name, analyzer.research_tools))
  IN IF bad # <<>> THEN Raise(NoAttribute(bad[1].command, "lower"))
     ELSE IF unhashable # <<>>
          THEN Raise("unhashable type: '" \o TypeName(unhashable[1].tool_name) \o "'")
     ELSE Ok((IF files_created # <<>>
                THEN <<"Created " \o ToString(Len(files_created)) \o " file(s)">> ELSE <<>>)
             \o (IF files_modified # <<>>
                   THEN <<"Modified " \o ToString(Len(files_modified)) \o " file(s)">>
                   ELSE <<>>)
             \o (IF test_commands # <<>> THEN <<"Ran tests">> ELSE <<>>)
             \o (IF build_commands # <<>> THEN <<"Executed build commands">> ELSE <<>>)
             \o (IF research_tools_used # <<>> THEN <<"Conducted code research">> ELSE <<>>))

_identify_accomplishments(analyzer, file_ops, bash_cmds, tool_events) ==
  LET files_created == SelectSeq(file_ops, LAMBDA op : op.operation = "write" /\ op.success)
      files_modified == SelectSeq(file_ops, LAMBDA op : op.operation = "edit" /\ op.success)
      successful_commands == SelectSeq(bash_cmds, LAMBDA cmd : cmd.success)
      bad == SelectSeq(successful_commands, LAMBDA cmd : ~IsStr(cmd.command))
      test_commands ==
        SelectSeq(successful_commands, LAMBDA cmd : Contains(Lower(cmd.command.s), "test"))
      build_commands ==
        SelectSeq(successful_commands,
                  LAMBDA cmd : AnyKeyword(Lower(cmd.command.s), accomplishment_build_keywords))
      unhashable == SelectSeq(tool_events, LAMBDA event : ~Hashable(event.tool_name))
      research_tools_used ==
        SelectSeq(tool_events, LAMBDA event : InTools(event.tool_name, analyzer.research_tools))
  IN IF bad # <<>> THEN Raise(NoAttribute(bad[1].command, "lower"))
     ELSE IF unhashable # <<>>
          THEN Raise("unhashable type: '" \o TypeName(unhashable[1].tool_name) \o "'")
     ELSE Ok((IF files_created # <<>>
                THEN <<"Created " \o ToString(Len(files_created)) \o " file(s)">> ELSE <<>>)
             \o (IF files_modified # <<>>
                   THEN <<"Modified " \o ToString(Len(files_modified)) \o " file(s)">>
                   ELSE <<>>)
             \o (IF test_commands # <<>> THEN <<"Ran tests">> ELSE <<>>)
             \o (IF build_commands # <<>> THEN <<"Executed build commands">> ELSE <<>>)
             \o (IF research_tools_used # <<>> THEN <<"Conducted code research">> ELSE <<>>))

(***************************************************************************)
(* TranscriptAnalyzer._generate_current_context                            *)
(***************************************************************************)
ContextMessageLimit == 50
ContextRecentFiles == 3

\* The message of the TypeError raised by Path(v) for a v that is no str
NotAPath(v) == "expected str, bytes or os.PathLike object, not " \o TypeName(v)

\* [Path(op.file_path).name for op in ops]
RECURSIVE PathNames(_)
PathNames(ops) ==
  IF ops = <<>> THEN Ok(<<>>)
  ELSE IF ~IsStr(Head(ops).file_path) THEN Raise(NotAPath(Head(ops).file_path))
  ELSE LET rest == PathNames(Tail(ops))
       IN IF rest.raised THEN rest
          ELSE Ok(<<PathName(Head(ops).file_path.s)>> \o rest.val)

\* _generate_current_context naming the first file operations
_generate_current_context_first_files(user_messages, file_ops, bash_cmds) ==
  IF user_messages = <<>> THEN Ok("Working on current task")
  ELSE LET last_message == user_messages[Len(user_messages)]
           recent_files == IF file_ops # <<>>
                           THEN PathNames(FirstN(file_ops, ContextRecentFiles))
                           ELSE Ok(<<>>)
           message_part ==
             IF last_message # ""
             THEN (IF Len(last_message) > ContextMessageLimit
                   THEN <<Prefix(last_message, ContextMessageLimit) \o "...">>
                   ELSE <<last_message>>)
             ELSE <<>>
       IN IF recent_files.raised THEN recent_files
          ELSE LET context_parts ==
                     message_part
                     \o (IF recent_files.val # <<>>
                         THEN <<"working on " \o Join(", ", recent_files.val)>>
                         ELSE <<>>)
               IN Ok(IF context_parts # <<>> THEN Join(" - ", context_parts)
                     ELSE "Working on current task")

_generate_current_context(user_messages, file_ops, bash_cmds) ==
  IF user_messages = <<>> THEN Ok("Working on current task")
  ELSE LET last_message == user_messages[Len(user_messages)]
           recent_files == IF file_ops # <<>>
                           THEN PathNames(LastN(file_ops, ContextRecentFiles))
                           ELSE Ok(<<>>)
           message_part ==
             IF last_message # ""
             THEN (IF Len(last_message) > ContextMessageLimit
                   THEN <<Prefix(last_message, ContextMessageLimit) \o "...">>
                   ELSE <<last_message>>)
             ELSE <<>>
       IN IF recent_files.raised THEN recent_files
          ELSE LET context_parts ==
                     message_part
                     \o (IF recent_files.val # <<>>
                         THEN <<"working on " \o Join(", ", recent_files.val)>>
                         ELSE <<>>)
               IN Ok(IF context_parts # <<>> THEN Join(" - ", context_parts)
                     ELSE "Working on current task")

(***************************************************************************)
(* TranscriptAnalyzer._analyze_events.  st holds the containers of the     *)
(* loop; st.raised says that an exception left the loop body, and every    *)
(* later step is then skipped.                                             *)
(***************************************************************************)
NewContainers ==
  [session_id |-> JStr("unknown"), user_messages |-> <<>>, assistant_responses |-> <<>>,
   tool_events |-> <<>>, file_operations |-> <<>>, bash_commands |-> <<>>,
   errors |-> <<>>, timestamps |-> <<>>, raised |-> FALSE, msg |-> ""]

Raised(st, m) == [st EXCEPT !.raised = TRUE, !.msg = m]

\* file_operations kept free of duplicates: an operation already listed is dropped
AppendFileOperationOnce(st, file_op) ==
  IF file_op.raised THEN Raised(st, file_op.msg)
  ELSE IF file_op.val # JNull
          /\ \A i \in 1..Len(st.file_operations) : st.file_operations[i] # file_op.val
  THEN [st EXCEPT !.file_operations = Append(@, file_op.val)]
  ELSE st

\* Lines 146-148: file_operations.append(file_op) if file_op
AppendFileOperation(st, file_op) ==
  IF file_op.raised THEN Raised(st, file_op.msg)
  ELSE IF file_op.val # JNull THEN [st EXCEPT !.file_operations = Append(@, file_op.val)]
  ELSE st

\* Lines 150-152: bash_commands.append(bash_cmd) if bash_cmd
AppendBashCommand(st, bash_cmd) ==
  IF bash_cmd.raised THEN Raised(st, bash_cmd.msg)
  ELSE IF bash_cmd.val # JNull THEN [st EXCEPT !.bash_commands = Append(@, bash_cmd.val)]
  ELSE st

\* Lines 145-152: the tool event is a file operation, a command or neither; st
\* holds the tool event already
ClassifyToolEvent(analyzer, st, tool_event) ==
  IF ~Hashable(tool_event.tool_name)
  THEN Raised(st, "unhashable type: '" \o TypeName(tool_event.tool_name) \o "'")
  ELSE IF InTools(tool_event.tool_name, analyzer.file_operation_tools)
  THEN AppendFileOperation(st, _extract_file_operation(analyzer, tool_event))
  ELSE IF tool_event.tool_name = JStr("Bash")
  THEN AppendBashCommand(st, _extract_bash_command(tool_event))
  ELSE st

\* Lines 141-152: what follows _extract_tool_event
AppendToolEvent(analyzer, st, extracted) ==
  IF extracted.raised THEN Raised(st, extracted.msg)
  ELSE ClassifyToolEvent(analyzer, [st EXCEPT !.tool_events = Append(@, extracted.val)],
                         extracted.val)

\* Lines 139-152: one tool_use item
ProcessToolUse(analyzer, st, item, events) ==
  AppendToolEvent(analyzer, st, _extract_tool_event(item, events))

\* Lines 136-158: the items of an assistant message
RECURSIVE ProcessItems(_, _, _, _)
ProcessItems(analyzer, st, items, events) ==
  IF items = <<>> \/ st.raised THEN st
  ELSE LET item == Head(items)
           st1 ==
             IF ~IsDict(item) THEN st
             ELSE IF Get(item, "type", JNull) = JStr("tool_use")
             THEN ProcessToolUse(analyzer, st, item, events)
             ELSE IF Get(item, "type", JNull) = JStr("text")
             THEN LET text == Get(item, "text", JStr(""))
                  IN IF ~IsStr(text) THEN Raised(st, NoAttribute(text, "strip"))
                     ELSE IF Strip(text.s) # ""
                     THEN [st EXCEPT !.assistant_responses = Append(@, Strip(text.s))]
                     ELSE st
             ELSE st
       IN ProcessItems(analyzer, st1, Tail(items), events)

\* Lines 110-164: the body of the loop over the events
ProcessEvent(analyzer, st, event, events) ==
  IF ~IsDict(event) THEN Raised(st, NoAttribute(event, "get"))
  ELSE
    LET event_type == Get(event, "type", JStr(""))
        timestamp == Get(event, "timestamp", JStr(""))
        st1 == IF Truthy(timestamp) THEN [st EXCEPT !.timestamps = Append(@, timestamp)]
               ELSE st
        st2 == IF HasKey(event, "sessionId")
               THEN [st1 EXCEPT !.session_id = Get(event, "sessionId", JNull)]
               ELSE st1
        message == Get(event, "message", JNull)
    IN IF event_type = JStr("user") /\ HasKey(event, "message")
       THEN IF IsDict(message) /\ Get(message, "role", JNull) = JStr("user")
            THEN LET content == Get(message, "content", JStr(""))
                 IN IF IsStr(content) /\ Strip(content.s) # ""
                       /\ ~_is_tool_result(content.s)
                    THEN [st2 EXCEPT !.user_messages = Append(@, Strip(content.s))]
                    ELSE st2
            ELSE st2
       ELSE IF event_type = JStr("assistant") /\ HasKey(event, "message")
       THEN IF IsDict(message)
            THEN LET content == Get(message, "content", JList(<<>>))
                 IN IF IsList(content) THEN ProcessItems(analyzer, st2, content.l, events)
                    ELSE st2
            ELSE st2
       ELSE IF event_type = JStr("system")
       THEN LET content == Get(event, "content", JStr(""))
            IN IF ~IsStr(content) THEN Raised(st2, NoAttribute(content, "lower"))
               ELSE IF Contains(Lower(content.s), "error")
                       \/ Contains(Lower(content.s), "failed")
               THEN [st2 EXCEPT !.errors = Append(@, content.s)]
               ELSE st2
       ELSE st2

RECURSIVE ProcessEvents(_, _, _, _)
ProcessEvents(analyzer, st, rest, events) ==
  IF rest = <<>> \/ st.raised THEN st
  ELSE ProcessEvents(analyzer, ProcessEvent(analyzer, st, Head(rest), events),
                     Tail(rest), events)

\* Lines 178-189: the SessionAnalysis returned
BuildAnalysis(st, duration_minutes, key_accomplishments, current_context) ==
  IF key_accomplishments.raised THEN key_accomplishments
  ELSE IF current_context.raised THEN current_context
  ELSE Ok(SessionAnalysis(st.session_id, duration_minutes, st.user_messages,
                          st.tool_events, st.file_operations, st.bash_commands,
                          st.errors, st.assistant_responses,
                          key_accomplishments.val, current_context.val))

\* Lines 166-189: what follows the loop over the events
Summarize(analyzer, st) ==
  IF st.raised THEN Raise(st.msg)
  ELSE BuildAnalysis(st,
                     _calculate_duration(st.timestamps),
                     _identify_accomplishments(analyzer, st.file_operations,
                                               st.bash_commands, st.tool_events),
                     _generate_current_context(st.user_messages, st.file_operations,
                                               st.bash_commands))

_analyze_events(analyzer, events) ==
  Summarize(analyzer, ProcessEvents(analyzer, NewContainers, events, events))

(***************************************************************************)
(* The transcript source.  A source that exists is a file that open() can  *)
(* read or cannot; a line of it is blank, is no JSON (json.loads raises    *)
(* JSONDecodeError), or is the JSON text of the value it carries.          *)
(***************************************************************************)
BlankLine == [text |-> "blank"]
InvalidLine == [text |-> "invalid"]
JsonLine(value) == [text |-> "json", value |-> value]

MissingSource == [exists |-> FALSE]
UnreadableSource == [exists |-> TRUE, readable |-> FALSE]
FileSource(lines) == [exists |-> TRUE, readable |-> TRUE, lines |-> lines]

\* json.loads(line), for a line that is not blank
json_loads(line) ==
  IF line.text = "invalid" THEN Raise("Expecting value: line 1 column 1 (char 0)")
  ELSE Ok(line.value)

\* Lines 88-94: the loop over the lines of the file
RECURSIVE ParseLines(_)
ParseLines(lines) ==
  IF lines = <<>> THEN <<>>
  ELSE LET line == Head(lines)
       IN IF line.text = "blank" THEN ParseLines(Tail(lines))
          ELSE LET parsed == json_loads(line)
               IN IF parsed.raised THEN ParseLines(Tail(lines))
                  ELSE <<parsed.val>> \o ParseLines(Tail(lines))

\* TranscriptAnalyzer._parse_transcript_file, for a source that exists
_parse_transcript_file(source) ==
  IF ~source.readable THEN Raise("[Errno 13] Permission denied: 'transcript.jsonl'")
  ELSE Ok(ParseLines(source.lines))

\* Line 80: _analyze_events on what _parse_transcript_file returned
AnalyzeParsed(analyzer, events) ==
  IF events.raised THEN events ELSE _analyze_events(analyzer, events.val)

\* Lines 79-80: the try block of analyze_transcript
AnalyzeTry(analyzer, source) == AnalyzeParsed(analyzer, _parse_transcript_file(source))

\* The handler written as `except json.JSONDecodeError as e`: every other exception
\* leaves analyze_transcript
AnalyzeExceptNarrow(try) ==
  IF try.raised /\ StartsWith(try.msg, "Expecting value")
  THEN Ok(_empty_analysis("analysis_error: " \o try.msg))
  ELSE try

\* Lines 81-82: except Exception as e
AnalyzeExcept(try) ==
  IF try.raised THEN Ok(_empty_analysis("analysis_error: " \o try.msg)) ELSE try

\* TranscriptAnalyzer.analyze_transcript: Ok(analysis), or Raise when an exception
\* leaves the method
analyze_transcript(analyzer, source) ==
  IF ~source.exists THEN Ok(_empty_analysis("transcript_not_found"))
  ELSE AnalyzeExcept(AnalyzeTry(analyzer, source))

(***************************************************************************)
(* SummaryGenerator.  The process environment is a record of the two       *)
(* variables the generator reads, each JNull when unset.  A rendering      *)
(* operation yields the set of its possible outcomes: random.choice and    *)
(* random.random make it a set, Raise an outcome that leaves the method.   *)
(***************************************************************************)
max_tts_length == 80

fallback_stop_messages ==
  <<"Work complete!", "All done!", "Task finished!", "Job complete!",
    "Ready for next task!">>

fallback_notification_messages ==
  <<"Your agent needs your input", "Waiting for your response",
    "Input required to continue">>

fallback_subagent_messages ==
  <<"Subagent Complete", "Subagent task finished", "Background work done">>

\* {random.choice(pool)}
Choices(pool) == {pool[i] : i \in 1..Len(pool)}

\* os.getenv(name, default)
getenv(environ, name, default) == IF environ[name] = JNull THEN default ELSE environ[name].s

\* _is_summary_enabled with 'false' as the default of the switch
_is_summary_enabled_default_off(environ) ==
  Lower(getenv(environ, "CLAUDE_HOOKS_SUMMARY_ENABLED", "false")) = "true"

\* SummaryGenerator._is_summary_enabled
_is_summary_enabled(environ) ==
  Lower(getenv(environ, "CLAUDE_HOOKS_SUMMARY_ENABLED", "true")) = "true"

\* _truncate_for_tts with `last_space >= self.max_tts_length * 0.7`
_truncate_for_tts_at_threshold(text) ==
  IF Len(text) <= max_tts_length THEN text
  ELSE LET truncated == Prefix(text, max_tts_length)
           last_space == RFind(truncated, " ")
       IN IF 10 * last_space >= 7 * max_tts_length
          THEN Prefix(truncated, last_space)
          ELSE RStrip(truncated) \o "..."

\* SummaryGenerator._truncate_for_tts
_truncate_for_tts(text) ==
  IF Len(text) <= max_tts_length THEN text
  ELSE LET truncated == Prefix(text, max_tts_length)
           last_space == RFind(truncated, " ")
       IN IF 10 * last_space > 7 * max_tts_length
          THEN Prefix(truncated, last_space)
          ELSE RStrip(truncated) \o "..."

\* _summarize_file_operations with `if len(modified) == 1:` for the modified part
_summarize_file_operations_named(file_operations) ==
  IF file_operations = <<>> THEN Ok("")
  ELSE
    LET created == SelectSeq(file_operations, LAMBDA op : op.operation = "write" /\ op.success)
        modified == SelectSeq(file_operations, LAMBDA op : op.operation = "edit" /\ op.success)
        created_part ==
          IF created = <<>> THEN Ok(<<>>)
          ELSE IF Len(created) = 1
          THEN (IF ~IsStr(created[1].file_path) THEN Raise(NotAPath(created[1].file_path))
                ELSE Ok(<<"created " \o PathName(created[1].file_path.s)>>))
          ELSE Ok(<<"created " \o ToString(Len(created)) \o " files">>)
        modified_part ==
          IF modified = <<>> THEN Ok(<<>>)
          ELSE IF Len(modified) = 1
          THEN (IF ~IsStr(modified[1].file_path) THEN Raise(NotAPath(modified[1].file_path))
                ELSE Ok(<<"modified " \o PathName(modified[1].file_path.s)>>))
          ELSE Ok(<<"modified " \o ToString(Len(modified)) \o " files">>)
    IN IF created_part.raised THEN created_part
       ELSE IF modified_part.raised THEN modified_part
       ELSE Ok(Join(", ", created_part.val \o modified_part.val))

\* _summarize_file_operations counting the failed operations too
_summarize_file_operations_any_outcome(file_operations) ==
  IF file_operations = <<>> THEN Ok("")
  ELSE
    LET created == SelectSeq(file_operations, LAMBDA op : op.operation = "write")
        modified == SelectSeq(file_operations, LAMBDA op : op.operation = "edit")
        created_part ==
          IF created = <<>> THEN Ok(<<>>)
          ELSE IF Len(created) = 1
          THEN (IF ~IsStr(created[1].file_path) THEN Raise(NotAPath(created[1].file_path))
                ELSE Ok(<<"created " \o PathName(created[1].file_path.s)>>))
          ELSE Ok(<<"created " \o ToString(Len(created)) \o " files">>)
        modified_part ==
          IF modified = <<>> THEN Ok(<<>>)
          ELSE IF Len(modified) = 1 /\ created = <<>>
          THEN (IF ~IsStr(modified[1].file_path) THEN Raise(NotAPath(modified[1].file_path))
                ELSE Ok(<<"modified " \o PathName(modified[1].file_path.s)>>))
          ELSE Ok(<<"modified " \o ToString(Len(modified)) \o " files">>)
    IN IF created_part.raised THEN created_part
       ELSE IF modified_part.raised THEN modified_part
       ELSE Ok(Join(", ", created_part.val \o modified_part.val))

\* SummaryGenerator._summarize_file_operations
_summarize_file_operations(file_operations) ==
  IF file_operations = <<>> THEN Ok("")
  ELSE
    LET created == SelectSeq(file_operations, LAMBDA op : op.operation = "write" /\ op.success)
        modified == SelectSeq(file_operations, LAMBDA op : op.operation = "edit" /\ op.success)
        created_part ==
          IF created = <<>> THEN Ok(<<>>)
          ELSE IF Len(created) = 1
          THEN (IF ~IsStr(created[1].file_path) THEN Raise(NotAPath(created[1].file_path))
                ELSE Ok(<<"created " \o PathName(created[1].file_path.s)>>))
          ELSE Ok(<<"created " \o ToString(Len(created)) \o " files">>)
        modified_part ==
          IF modified = <<>> THEN Ok(<<>>)
          ELSE IF Len(modified) = 1 /\ created = <<>>
          THEN (IF ~IsStr(modified[1].file_path) THEN Raise(NotAPath(modified[1].file_path))
                ELSE Ok(<<"modified " \o PathName(modified[1].file_path.s)>>))
          ELSE Ok(<<"modified " \o ToString(Len(modified)) \o " files">>)
    IN IF created_part.raised THEN created_part
       ELSE IF modified_part.raised THEN modified_part
       ELSE Ok(Join(", ", created_part.val \o modified_part.val))

\* SummaryGenerator._summarize_bash_commands
summary_build_keywords == <<"build", "compile", "npm run", "yarn", "make">>

\* _summarize_bash_commands with the git commands found in the lower-cased text
_summarize_bash_commands_git_lower(bash_commands) ==
  IF bash_commands = <<>> THEN Ok("")
  ELSE
    LET successful == SelectSeq(bash_commands, LAMBDA cmd : cmd.success)
        bad == SelectSeq(successful, LAMBDA cmd : ~IsStr(cmd.command))
        test_commands ==
          SelectSeq(successful, LAMBDA cmd : Contains(Lower(cmd.command.s), "test"))
        build_commands ==
          SelectSeq(successful,
                    LAMBDA cmd : AnyKeyword(Lower(cmd.command.s),
                                            <<"build", "compile", "npm run", "yarn", "make">>))
        git_commands ==
          SelectSeq(successful, LAMBDA cmd : StartsWith(Lower(cmd.command.s), "git"))
        parts == (IF test_commands # <<>> THEN <<"ran tests">> ELSE <<>>)
                 \o (IF build_commands # <<>> THEN <<"built project">> ELSE <<>>)
                 \o (IF git_commands # <<>> THEN <<"updated git">> ELSE <<>>)
    IN IF successful = <<>> THEN Ok("")
       ELSE IF bad # <<>> THEN Raise(NoAttribute(bad[1].command, "lower"))
       ELSE IF parts = <<>> /\ Len(successful) > 0
       THEN Ok("executed " \o ToString(Len(successful)) \o " commands")
       ELSE Ok(Join(", ", parts))

_summarize_bash_commands(bash_commands) ==
  IF bash_commands = <<>> THEN Ok("")
  ELSE
    LET successful == SelectSeq(bash_commands, LAMBDA cmd : cmd.success)
        bad == SelectSeq(successful, LAMBDA cmd : ~IsStr(cmd.command))
        test_commands ==
          SelectSeq(successful, LAMBDA cmd : Contains(Lower(cmd.command.s), "test"))
        build_commands ==
          SelectSeq(successful,
                    LAMBDA cmd : AnyKeyword(Lower(cmd.command.s), summary_build_keywords))
        git_commands == SelectSeq(successful, LAMBDA cmd : StartsWith(cmd.command.s, "git"))
        parts == (IF test_commands # <<>> THEN <<"ran tests">> ELSE <<>>)
                 \o (IF build_commands # <<>> THEN <<"built project">> ELSE <<>>)
                 \o (IF git_commands # <<>> THEN <<"updated git">> ELSE <<>>)
    IN IF successful = <<>> THEN Ok("")
       ELSE IF bad # <<>> THEN Raise(NoAttribute(bad[1].command, "lower"))
       ELSE IF parts = <<>> /\ Len(successful) > 0
       THEN Ok("executed " \o ToString(Len(successful)) \o " commands")
       ELSE Ok(Join(", ", parts))

\* SummaryGenerator._summarize_errors
\* _summarize_errors with one wording for every count
_summarize_errors_one_wording(errors) ==
  IF errors = <<>> THEN ""
  ELSE "resolved " \o ToString(Len(errors)) \o " errors"

_summarize_errors(errors) ==
  IF errors = <<>> THEN ""
  ELSE IF Len(errors) = 1 THEN "resolved 1 error"
  ELSE IF Len(errors) > 1 THEN "resolved " \o ToString(Len(errors)) \o " errors"
  ELSE ""

\* The try block of generate_stop_summary with an early return that also asks for
\* no errors
StopSummaryTryNoErrors(analysis) ==
  IF /\ analysis.key_accomplishments = <<>>
     /\ analysis.file_operations = <<>>
     /\ analysis.bash_commands = <<>>
     /\ analysis.errors = <<>>
  THEN Ok(Choices(fallback_stop_messages))
  ELSE
    LET file_summary == _summarize_file_operations(analysis.file_operations)
        command_summary == _summarize_bash_commands(analysis.bash_commands)
        error_summary == _summarize_errors(analysis.errors)
    IN IF file_summary.raised THEN file_summary
       ELSE IF command_summary.raised THEN command_summary
       ELSE
         LET summary_parts ==
               (IF file_summary.val # "" THEN <<file_summary.val>> ELSE <<>>)
               \o (IF command_summary.val # "" THEN <<command_summary.val>> ELSE <<>>)
               \o (IF error_summary # "" THEN <<error_summary>> ELSE <<>>)
         IN IF summary_parts # <<>>
            THEN Ok({_truncate_for_tts("Completed: " \o Join(", ", summary_parts))})
            ELSE IF analysis.key_accomplishments # <<>>
            THEN Ok({_truncate_for_tts(
                       "Completed: " \o Join(", ", FirstN(analysis.key_accomplishments, 2)))})
            ELSE Ok(Choices(fallback_stop_messages))

\* Lines 67-98: the try block of generate_stop_summary; Ok holds the set of the
\* strings the block may return
StopSummaryTry(analysis) ==
  IF /\ analysis.key_accomplishments = <<>>
     /\ analysis.file_operations = <<>>
     /\ analysis.bash_commands = <<>>
  THEN Ok(Choices(fallback_stop_messages))
  ELSE
    LET file_summary == _summarize_file_operations(analysis.file_operations)
        command_summary == _summarize_bash_commands(analysis.bash_commands)
        error_summary == _summarize_errors(analysis.errors)
    IN IF file_summary.raised THEN file_summary
       ELSE IF command_summary.raised THEN command_summary
       ELSE
         LET summary_parts ==
               (IF file_summary.val # "" THEN <<file_summary.val>> ELSE <<>>)
               \o (IF command_summary.val # "" THEN <<command_summary.val>> ELSE <<>>)
               \o (IF error_summary # "" THEN <<error_summary>> ELSE <<>>)
         IN IF summary_parts # <<>>
            THEN Ok({_truncate_for_tts("Completed: " \o Join(", ", summary_parts))})
            ELSE IF analysis.key_accomplishments # <<>>
            THEN Ok({_truncate_for_tts(
                       "Completed: " \o Join(", ", FirstN(analysis.key_accomplishments, 2)))})
            ELSE Ok(Choices(fallback_stop_messages))

\* generate_stop_summary without its except clause
generate_stop_summary_no_except(environ, analysis) ==
  IF ~_is_summary_enabled(environ) THEN {Ok(m) : m \in Choices(fallback_stop_messages)}
  ELSE LET try == StopSummaryTry(analysis)
       IN IF try.raised THEN {try}
          ELSE {Ok(text) : text \in try.val}

\* SummaryGenerator.generate_stop_summary
generate_stop_summary(environ, analysis) ==
  IF ~_is_summary_enabled(environ) THEN {Ok(m) : m \in Choices(fallback_stop_messages)}
  ELSE LET try == StopSummaryTry(analysis)
       IN IF try.raised THEN {Ok(m) : m \in Choices(fallback_stop_messages)}
          ELSE {Ok(text) : text \in try.val}

\* SummaryGenerator._generate_notification_context
_generate_notification_context(analysis) ==
  LET recent_files == LastN(analysis.file_operations, 2)
      last_message == Lower(analysis.user_messages[Len(analysis.user_messages)])
  IN IF analysis.file_operations # <<>> /\ Len(recent_files) = 1
     THEN (IF ~IsStr(recent_files[1].file_path) THEN Raise(NotAPath(recent_files[1].file_path))
           ELSE Ok("Working on " \o PathName(recent_files[1].file_path.s)))
     ELSE IF analysis.file_operations # <<>> /\ Len(recent_files) > 1
     THEN Ok("Working on multiple files")
     ELSE IF analysis.user_messages = <<>> THEN Ok("")
     ELSE IF AnyKeyword(last_message, <<"database", "db">>) THEN Ok("Setting up database")
     ELSE IF AnyKeyword(last_message, <<"test", "testing">>) THEN Ok("Working on tests")
     ELSE IF AnyKeyword(last_message, <<"auth", "authentication">>)
     THEN Ok("Implementing authentication")
     ELSE IF AnyKeyword(last_message, <<"api", "endpoint">>) THEN Ok("Building API")
     ELSE Ok("")

\* Lines 120-121: the name prefixes that random.random() < 0.3 may give
NamePrefixes(environ) ==
  LET engineer_name == Strip(getenv(environ, "ENGINEER_NAME", ""))
  IN IF engineer_name # "" THEN {engineer_name \o ", ", ""} ELSE {""}

\* The try block of generate_notification_summary with 'Working on current task'
\* taken for no context
NotificationSummaryTryNoTask(environ, analysis) ==
  IF /\ analysis.current_context # ""
     /\ analysis.current_context \notin {"Unknown context", "Working on current task"}
  THEN Ok({_truncate_for_tts(name_prefix \o "Working on: " \o analysis.current_context
                             \o ", needs your input") :
            name_prefix \in NamePrefixes(environ)})
  ELSE LET recent_context == _generate_notification_context(analysis)
       IN IF recent_context.raised THEN recent_context
          ELSE IF recent_context.val # ""
          THEN Ok({_truncate_for_tts(name_prefix \o recent_context.val
                                     \o ", needs your input") :
                    name_prefix \in NamePrefixes(environ)})
          ELSE Ok({name_prefix \o m :
                    name_prefix \in NamePrefixes(environ),
                    m \in Choices(fallback_notification_messages)})

\* Lines 119-135: the try block of generate_notification_summary
NotificationSummaryTry(environ, analysis) ==
  IF analysis.current_context # "" /\ analysis.current_context # "Unknown context"
  THEN Ok({_truncate_for_tts(name_prefix \o "Working on: " \o analysis.current_context
                             \o ", needs your input") :
            name_prefix \in NamePrefixes(environ)})
  ELSE LET recent_context == _generate_notification_context(analysis)
       IN IF recent_context.raised THEN recent_context
          ELSE IF recent_context.val # ""
          THEN Ok({_truncate_for_tts(name_prefix \o recent_context.val
                                     \o ", needs your input") :
                    name_prefix \in NamePrefixes(environ)})
          ELSE Ok({name_prefix \o m :
                    name_prefix \in NamePrefixes(environ),
                    m \in Choices(fallback_notification_messages)})

\* SummaryGenerator.generate_notification_summary
generate_notification_summary(environ, analysis) ==
  IF ~_is_summary_enabled(environ)
  THEN {Ok(m) : m \in Choices(fallback_notification_messages)}
  ELSE LET try == NotificationSummaryTry(environ, analysis)
       IN IF try.raised THEN {Ok(m) : m \in Choices(fallback_notification_messages)}
          ELSE {Ok(text) : text \in try.val}

\* SummaryGenerator._summarize_research_activity
summary_research_tools == {"WebFetch", "WebSearch", "Grep", "Glob", "LS"}

\* _summarize_research_activity without the wording for several events
_summarize_research_activity_one_wording(analysis) ==
  LET unhashable == SelectSeq(analysis.tool_events, LAMBDA event : ~Hashable(event.tool_name))
      research_events ==
        SelectSeq(analysis.tool_events,
                  LAMBDA event : InTools(event.tool_name, summary_research_tools))
  IN IF unhashable # <<>>
     THEN Raise("unhashable type: '" \o TypeName(unhashable[1].tool_name) \o "'")
     ELSE IF research_events # <<>> THEN Ok("conducted code analysis")
     ELSE Ok("")

_summarize_research_activity(analysis) ==
  LET unhashable == SelectSeq(analysis.tool_events, LAMBDA event : ~Hashable(event.tool_name))
      research_events ==
        SelectSeq(analysis.tool_events,
                  LAMBDA event : InTools(event.tool_name, summary_research_tools))
  IN IF unhashable # <<>>
     THEN Raise("unhashable type: '" \o TypeName(unhashable[1].tool_name) \o "'")
     ELSE IF research_events # <<>>
     THEN (IF Len(research_events) = 1 THEN Ok("conducted code analysis")
           ELSE Ok("analyzed " \o ToString(Len(research_events)) \o " code components"))
     ELSE Ok("")

\* Lines 155-171: the try block of generate_subagent_summary
SubagentSummaryTry(analysis) ==
  LET research_summary == _summarize_research_activity(analysis)
      file_count == Len(SelectSeq(analysis.file_operations, LAMBDA op : op.operation = "read"))
  IN IF research_summary.raised THEN research_summary
     ELSE IF research_summary.val # ""
     THEN Ok({_truncate_for_tts("Subagent completed: " \o research_summary.val)})
     ELSE IF analysis.file_operations # <<>> /\ file_count > 0
     THEN Ok({_truncate_for_tts("Subagent analyzed " \o ToString(file_count) \o " files")})
     ELSE IF analysis.key_accomplishments # <<>>
     THEN Ok({_truncate_for_tts("Subagent completed: " \o analysis.key_accomplishments[1])})
     ELSE Ok(Choices(fallback_subagent_messages))

\* SummaryGenerator.generate_subagent_summary
generate_subagent_summary(environ, analysis) ==
  IF ~_is_summary_enabled(environ) THEN {Ok(m) : m \in Choices(fallback_subagent_messages)}
  ELSE LET try == SubagentSummaryTry(analysis)
       IN IF try.raised THEN {Ok(m) : m \in Choices(fallback_subagent_messages)}
          ELSE {Ok(text) : text \in try.val}

(***************************************************************************)
(* The transcripts of the model: sequences of at most MaxLines lines drawn *)
(* from the lines below, a missing file and a file that cannot be read.    *)
(***************************************************************************)
Text(s) == JObj(<< <<"type", JStr("text")>>, <<"text", JStr(s)>> >>)

ToolUse(id, name, input) ==
  JObj(<< <<"type", JStr("tool_use")>>, <<"id", JStr(id)>>, <<"name", JStr(name)>>,
          <<"input", JObj(input)>> >>)

ToolResult(id, content) ==
  JObj(<< <<"type", JStr("tool_result")>>, <<"tool_use_id", JStr(id)>>,
          <<"content", content>> >>)

\* A user prompt, with the session id and a timestamp
UserLine ==
  JsonLine(JObj(<< <<"type", JStr("user")>>, <<"sessionId", JStr("s1")>>,
                   <<"timestamp", JStr("2024-01-01T00:00:00Z")>>,
                   <<"message", JObj(<< <<"role", JStr("user")>>,
                                        <<"content", JStr("Please fix the bug")>> >>)>> >>))

\* Tool results: the Edit t2 failed, the Bash b2 succeeded
ResultLine ==
  JsonLine(JObj(<< <<"type", JStr("user")>>,
                   <<"message",
                     JObj(<< <<"role", JStr("user")>>,
                             <<"content",
                               JList(<< ToolResult("t2", JObj(<< <<"is_error", JBool(TRUE)>>,
                                                                 <<"content", JStr("boom")>> >>)),
                                        ToolResult("b2", JStr("ok")) >>)>> >>)>> >>))

\* A Write and an Edit followed by a text
WriteEditLine ==
  JsonLine(JObj(<< <<"type", JStr("assistant")>>,
                   <<"timestamp", JStr("2024-01-01T00:05:30Z")>>,
                   <<"message",
                     JObj(<< <<"role", JStr("assistant")>>,
                             <<"content",
                               JList(<< ToolUse("t1", "Write",
                                                << <<"file_path", JStr("/src/a.py")>>,
                                                   <<"content", JStr("x = 1")>> >>),
                                        ToolUse("t2", "Edit",
                                                << <<"file_path", JStr("/src/b.py")>>,
                                                   <<"new_string", JStr("y = 2")>> >>),
                                        Text(" Done ") >>)>> >>)>> >>))

\* Two Bash commands
BashLine ==
  JsonLine(JObj(<< <<"type", JStr("assistant")>>,
                   <<"message",
                     JObj(<< <<"role", JStr("assistant")>>,
                             <<"content",
                               JList(<< ToolUse("b1", "Bash",
                                                << <<"command", JStr("npm Test")>> >>),
                                        ToolUse("b2", "Bash",
                                                << <<"command", JStr("git status")>>,
                                                   <<"description", JStr("status")>> >>)
                                     >>)>> >>)>> >>))

\* A research tool, a Read, and a tool that is neither
ResearchLine ==
  JsonLine(JObj(<< <<"type", JStr("assistant")>>,
                   <<"message",
                     JObj(<< <<"role", JStr("assistant")>>,
                             <<"content",
                               JList(<< ToolUse("g1", "Grep", << <<"pattern", JStr("x")>> >>),
                                        ToolUse("r1", "Read",
                                                << <<"file_path", JStr("/src/c.py")>> >>)
                                     >>)>> >>)>> >>))

\* A tool that is no file operation, no command and no research
TaskLine ==
  JsonLine(JObj(<< <<"type", JStr("assistant")>>,
                   <<"message",
                     JObj(<< <<"role", JStr("assistant")>>,
                             <<"content",
                               JList(<< ToolUse("k1", "Task", << <<"prompt", JStr("go")>> >>)
                                     >>)>> >>)>> >>))

SystemErrorLine ==
  JsonLine(JObj(<< <<"type", JStr("system")>>, <<"content", JStr("Build FAILED")>> >>))

\* A system event whose content is no string
BadSystemLine ==
  JsonLine(JObj(<< <<"type", JStr("system")>>,
                   <<"content", JObj(<< <<"level", JStr("error")>> >>)>> >>))

\* Valid JSON that is no object
NumberLine == JsonLine(JNum(42))

\* A Write whose file_path is no string
BadPathLine ==
  JsonLine(JObj(<< <<"type", JStr("assistant")>>,
                   <<"message",
                     JObj(<< <<"role", JStr("assistant")>>,
                             <<"content",
                               JList(<< JObj(<< <<"type", JStr("tool_use")>>,
                                                <<"id", JStr("w9")>>,
                                                <<"name", JStr("Write")>>,
                                                <<"input",
                                                  JObj(<< <<"file_path", JNum(5)>> >>)>> >>)
                                     >>)>> >>)>> >>))

Lines ==
  {BlankLine, InvalidLine, NumberLine, UserLine, ResultLine, WriteEditLine, BashLine,
   ResearchLine, TaskLine, SystemErrorLine, BadSystemLine, BadPathLine}

RECURSIVE SeqsUpTo(_, _)
SeqsUpTo(S, n) ==
  IF n = 0 THEN {<<>>}
  ELSE LET shorter == SeqsUpTo(S, n - 1)
       IN shorter \cup {Append(q, x) : q \in {r \in shorter : Len(r) = n - 1}, x \in S}

Sources ==
  {MissingSource, UnreadableSource} \cup {FileSource(l) : l \in SeqsUpTo(Lines, MaxLines)}

Environs ==
  [CLAUDE_HOOKS_SUMMARY_ENABLED : {JNull, JStr("True"), JStr("false")},
   ENGINEER_NAME : {JNull, JStr("Dan")}]

(***************************************************************************)
(* SessionAnalysis values that a caller of the generator builds itself,    *)
(* with the dataclass constructor, rather than with the analyzer.          *)
(***************************************************************************)
ConstructedAnalyses ==
  {SessionAnalysis(JStr("built"), 0, um, te, fo, bc, er, <<>>, acc, ctx) :
     um \in {<<>>, <<"Fix the DB tests">>},
     te \in {<<>>,
             <<ToolEvent(JList(<<>>), JObj(<<>>), JNull, TRUE, "", JNull)>>,
             <<ToolEvent(JStr("Grep"), JObj(<<>>), JNull, TRUE, "", JNull)>>},
     fo \in {<<>>,
             <<FileOperation("write", JNum(5), TRUE, JNull)>>,
             <<FileOperation("edit", JStr("lib/b.py"), TRUE, JNull),
               FileOperation("write", JStr("/src/a.py"), TRUE, JNull)>>,
             <<FileOperation("read", JStr("c.py"), FALSE, JNull)>>},
     bc \in {<<>>, <<BashCommand(JNum(1), TRUE, JStr(""), JStr(""), JNull)>>},
     er \in {<<>>, <<"boom">>},
     acc \in {<<>>, <<"Ran tests">>},
     ctx \in {"Unknown context", "Fixing the build"}}

(***************************************************************************)
(* The texts given to _truncate_for_tts on its own: runs of "x" of a       *)
(* length around max_tts_length, with up to two whitespace characters at   *)
(* positions (counted from 1) around the word-boundary threshold.          *)
(***************************************************************************)
\* The shortest text is max_tts_length - TextSlack long, the longest
\* max_tts_length + TextExcess.
TextSlack == 2
TextExcess == 16

MarkPositions == {40, 56, 57, 58, 79, 80, 81, 90}
MarkChars == {" ", "\t"}
Marks == MarkPositions \X MarkChars

RECURSIVE Marked(_, _, _)
Marked(len, marks, i) ==
  IF i > len THEN ""
  ELSE (IF \E m \in marks : m[1] = i THEN (CHOOSE m \in marks : m[1] = i)[2] ELSE "x")
       \o Marked(len, marks, i + 1)

TruncateInputs ==
  {Marked(len, marks, 1) :
     len \in (max_tts_length - TextSlack)..(max_tts_length + TextExcess),
     marks \in {ms \in SUBSET Marks :
                  Cardinality(ms) <= 2 /\ \A m, k \in ms : m[1] = k[1] => m = k}}

(***************************************************************************)
(* The state: a hook process with its environment, the transcript it was   *)
(* given, its analyzer, and what the calls made so far returned.           *)
(***************************************************************************)
VARIABLES
  source,     \* the transcript file
  environ,    \* the process environment
  analyzer,   \* the fields of the TranscriptAnalyzer
  calls,      \* the number of analyze_transcript calls made
  analysis,   \* the SessionAnalysis at hand (JNull before there is one)
  scenario,   \* the rendering operation called: "none", "stop", "notification", "subagent"
  output,     \* the string it returned
  raised,     \* an exception left analyze_transcript or the rendering operation
  text,       \* a text given to _truncate_for_tts on its own
  truncated   \* << >> before that call, <<what it returned>> after

vars ==
  <<source, environ, analyzer, calls, analysis, scenario, output, raised, text, truncated>>

Init ==
  /\ source \in Sources
  /\ environ \in Environs
  /\ analyzer = TranscriptAnalyzer
  /\ calls = 0
  /\ analysis = JNull
  /\ scenario = "none"
  /\ output = ""
  /\ raised = FALSE
  /\ text = ""
  /\ truncated = <<>>

\* analyze_transcript with the parsed events kept on the analyzer: a later call
\* classifies the events of the earlier call once more
AnalyzeTranscriptKeepingEvents ==
  /\ scenario = "none" /\ ~raised /\ calls < MaxCalls
  /\ analysis = JNull \/ calls > 0
  /\ \E result \in {analyze_transcript(
                       analyzer,
                       IF calls > 0 /\ source.exists /\ source.readable
                       THEN FileSource(source.lines \o source.lines) ELSE source)} :
       /\ raised' = result.raised
       /\ analysis' = IF result.raised THEN analysis ELSE result.val
  /\ calls' = calls + 1
  /\ UNCHANGED <<source, environ, analyzer, scenario, output, text, truncated>>

\* analyzer.analyze_transcript(transcript_path)
AnalyzeTranscript ==
  /\ scenario = "none" /\ ~raised /\ calls < MaxCalls
  /\ analysis = JNull \/ calls > 0
  /\ \E result \in {analyze_transcript(analyzer, source)} :
       /\ raised' = result.raised
       /\ analysis' = IF result.raised THEN analysis ELSE result.val
  /\ calls' = calls + 1
  /\ UNCHANGED <<source, environ, analyzer, scenario, output, text, truncated>>

\* SessionAnalysis(...): a caller without a transcript builds the analysis itself
ConstructAnalysis ==
  /\ scenario = "none" /\ calls = 0 /\ analysis = JNull /\ ~source.exists
  /\ analysis' \in ConstructedAnalyses
  /\ UNCHANGED <<source, environ, analyzer, calls, scenario, output, raised, text, truncated>>

\* What the caller holds after a rendering operation with the outcomes given
Rendered(name, outcomes) ==
  /\ scenario = "none" /\ ~raised /\ analysis # JNull
  /\ \E o \in outcomes :
       /\ raised' = o.raised
       /\ output' = IF o.raised THEN output ELSE o.val
  /\ scenario' = name
  /\ UNCHANGED <<source, environ, analyzer, calls, analysis, text, truncated>>

\* generator.generate_stop_summary(analysis)
GenerateStopSummary == Rendered("stop", generate_stop_summary(environ, analysis))

\* generator.generate_notification_summary(analysis)
GenerateNotificationSummary ==
  Rendered("notification", generate_notification_summary(environ, analysis))

\* generator.generate_subagent_summary(analysis)
GenerateSubagentSummary == Rendered("subagent", generate_subagent_summary(environ, analysis))

Next ==
  \/ AnalyzeTranscript
  \/ ConstructAnalysis
  \/ GenerateStopSummary
  \/ GenerateNotificationSummary
  \/ GenerateSubagentSummary

Spec == Init /\ [][Next]_vars

(***************************************************************************)
(* _truncate_for_tts on its own.                                           *)
(***************************************************************************)
InitTruncate ==
  /\ source = MissingSource
  /\ environ = [CLAUDE_HOOKS_SUMMARY_ENABLED |-> JNull, ENGINEER_NAME |-> JNull]
  /\ analyzer = TranscriptAnalyzer
  /\ calls = 0
  /\ analysis = JNull
  /\ scenario = "none"
  /\ output = ""
  /\ raised = FALSE
  /\ text \in TruncateInputs
  /\ truncated = <<>>

\* generator._truncate_for_tts(text)
TruncateForTts ==
  /\ truncated = <<>>
  /\ truncated' = <<_truncate_for_tts(text)>>
  /\ UNCHANGED <<source, environ, analyzer, calls, analysis, scenario, output, raised, text>>

NextTruncate == TruncateForTts

SpecTruncate == InitTruncate /\ [][NextTruncate]_vars

(***************************************************************************)
(* The generator on analyses that a caller builds to exercise one rule of  *)
(* it: commands only, a current context only, tool events and reads only.  *)
(***************************************************************************)
\* Longest list of commands, of tool events and of file operations in them.
MaxItems == 3

\* Commands that set the test, build and git flags of _summarize_bash_commands,
\* several of them or none
CommandTexts ==
  {"npm run build", "ls -la", "pytest -q", "git push", "Git Test", "echo MAKE"}

Commands ==
  {BashCommand(JStr(c), ok, JStr(""), JStr(""), JNull) :
     c \in CommandTexts, ok \in BOOLEAN}

CommandLists ==
  SeqsUpTo({c \in Commands : c.success}, MaxItems)
  \cup SeqsUpTo({c \in Commands : c.command.s \in {"ls -la", "git push"}}, MaxItems)

CommandAnalyses ==
  {SessionAnalysis(JStr("built"), 0, <<>>, <<>>, <<>>, bc, <<>>, <<>>, <<>>,
                   "Unknown context") : bc \in CommandLists}

\* Tool events: a research tool, a research tool that failed, a tool that is no
\* research tool, and a tool name that cannot be hashed
ResearchEvents ==
  {ToolEvent(JStr("Grep"), JObj(<<>>), JStr("found"), TRUE, "", JNull),
   ToolEvent(JStr("LS"), JObj(<<>>), JNull, FALSE, "", JStr("denied")),
   ToolEvent(JStr("Task"), JObj(<<>>), JNull, TRUE, "", JNull),
   ToolEvent(JList(<<>>), JObj(<<>>), JNull, TRUE, "", JNull)}

ResearchAnalyses ==
  {SessionAnalysis(JStr("built"), 0, <<>>, te, fo, <<>>, <<>>, <<>>, acc, "Unknown context") :
     te \in SeqsUpTo(ResearchEvents, MaxItems),
     fo \in {<<>>, <<FileOperation("read", JStr("c.py"), TRUE, JNull)>>},
     acc \in {<<>>, <<"Conducted code research">>}}

\* File operations: a read, a read that failed, and a write
ReadOperations ==
  {FileOperation("read", JStr("c.py"), TRUE, JNull),
   FileOperation("read", JStr("d.py"), FALSE, JNull),
   FileOperation("write", JStr("/src/a.py"), TRUE, JStr("x = 1"))}

ReadAnalyses ==
  {SessionAnalysis(JStr("built"), 0, <<>>, te, fo, <<>>, <<>>, <<>>, acc, "Unknown context") :
     te \in {<<>>, <<ToolEvent(JStr("Task"), JObj(<<>>), JNull, TRUE, "", JNull)>>},
     fo \in SeqsUpTo(ReadOperations, MaxItems),
     acc \in {<<>>, <<"Created 1 file(s)", "Ran tests">>}}

\* File operations of every kind and outcome
FileOperations ==
  {FileOperation("write", JStr("/src/a.py"), TRUE, JStr("x = 1")),
   FileOperation("write", JStr("/src/f.py"), FALSE, JStr("")),
   FileOperation("edit", JStr("lib/b.py"), TRUE, JStr("y = 2")),
   FileOperation("edit", JStr("/x/g.py"), FALSE, JStr("")),
   FileOperation("read", JStr("c.py"), TRUE, JNull)}

FileAnalyses ==
  {SessionAnalysis(JStr("built"), 0, <<>>, <<>>, fo, <<>>, <<>>, <<>>, <<>>, "Unknown context") :
     fo \in SeqsUpTo(FileOperations, MaxItems)}

\* Analyses with file operations, commands, errors and accomplishments at once
StopAnalyses ==
  {SessionAnalysis(JStr("built"), 0, <<>>, <<>>, fo, bc, er, <<>>, acc, "Unknown context") :
     fo \in {<<>>,
             <<FileOperation("read", JStr("c.py"), TRUE, JNull)>>,
             <<FileOperation("write", JStr("/src/payment_gateway_adapter_integration_v2.py"),
                             TRUE, JStr("x = 1"))>>,
             <<FileOperation("write", JStr("/src/a.py"), TRUE, JStr("x = 1")),
               FileOperation("edit", JStr("lib/b.py"), TRUE, JStr("y = 2"))>>},
     bc \in {<<>>,
             <<BashCommand(JStr("pytest -q"), TRUE, JStr(""), JStr(""), JNull)>>,
             <<BashCommand(JStr("ls -la"), FALSE, JStr(""), JStr(""), JNull)>>,
             <<BashCommand(JStr("git push"), TRUE, JStr(""), JStr(""), JNull),
               BashCommand(JStr("ls -la"), TRUE, JStr(""), JStr(""), JNull)>>},
     er \in SeqsUpTo({"Build FAILED"}, MaxItems),
     acc \in {<<>>, <<"Ran tests">>}}

GeneratorAnalyses ==
  CommandAnalyses \cup ResearchAnalyses \cup ReadAnalyses \cup FileAnalyses \cup StopAnalyses

InitGenerator ==
  /\ source = MissingSource
  /\ environ \in {e \in Environs : e.CLAUDE_HOOKS_SUMMARY_ENABLED = JNull}
  /\ analyzer = TranscriptAnalyzer
  /\ calls = 0
  /\ analysis = JNull
  /\ scenario = "none"
  /\ output = ""
  /\ raised = FALSE
  /\ text = ""
  /\ truncated = <<>>

\* SessionAnalysis(...) with the fields of one of the analyses above
ConstructGeneratorAnalysis ==
  /\ scenario = "none" /\ analysis = JNull
  /\ analysis' \in GeneratorAnalyses
  /\ UNCHANGED <<source, environ, analyzer, calls, scenario, output, raised, text, truncated>>

NextGenerator ==
  \/ ConstructGeneratorAnalysis
  \/ GenerateStopSummary
  \/ GenerateNotificationSummary
  \/ GenerateSubagentSummary

SpecGenerator == InitGenerator /\ [][NextGenerator]_vars


(***************************************************************************)
(* The analyzer on its own, on transcripts of at most MaxEvents events     *)
(* that are drawn, per transcript, from one of the families below.         *)
(***************************************************************************)
MaxEvents == 3

\* An event that carries a value under 'timestamp', and one that carries none
TimedLine(type, timestamp) ==
  JsonLine(JObj(<< <<"type", JStr(type)>>, <<"timestamp", timestamp>> >>))

UntimedLine == JsonLine(JObj(<< <<"type", JStr("summary")>> >>))

\* Timestamps with 'Z', with an offset, without offset, no ISO-8601 text, empty,
\* and no string
TimedLines ==
  {TimedLine("user", JStr("2024-01-01T00:00:00Z")),
   TimedLine("assistant", JStr("2024-01-01T00:05:30Z")),
   TimedLine("system", JStr("2024-01-01T00:00:40Z")),
   TimedLine("summary", JStr("2024-01-01T02:05:30+02:00")),
   TimedLine("summary", JStr("2024-01-01T00:05:30")),
   TimedLine("summary", JStr("soon")),
   TimedLine("summary", JStr("")),
   TimedLine("summary", JNum(7)),
   UntimedLine}

DurationSources == {FileSource(l) : l \in SeqsUpTo(TimedLines, MaxEvents)}

\* A user event whose content is a list of tool results
ResultsLine(results) ==
  JsonLine(JObj(<< <<"type", JStr("user")>>,
                   <<"message", JObj(<< <<"role", JStr("user")>>,
                                        <<"content", JList(results)>> >>)>> >>))

\* An assistant event whose content is a list of items
AssistantLine(items) ==
  JsonLine(JObj(<< <<"type", JStr("assistant")>>,
                   <<"message", JObj(<< <<"role", JStr("assistant")>>,
                                        <<"content", JList(items)>> >>)>> >>))

ErrorResult == JObj(<< <<"is_error", JBool(TRUE)>>, <<"content", JStr("boom")>> >>)

\* The Read t1 and the events that hold results: one for t1, a failure of t1,
\* two for t1 in one event, and one for another tool
CorrelationLines ==
  {AssistantLine(<<ToolUse("t1", "Read", << <<"file_path", JStr("/src/c.py")>> >>)>>),
   ResultsLine(<<ToolResult("t1", JStr("first"))>>),
   ResultsLine(<<ToolResult("t1", ErrorResult)>>),
   ResultsLine(<<ToolResult("t9", JStr("other")), ToolResult("t1", JStr("second")),
                 ToolResult("t1", ErrorResult)>>),
   ResultsLine(<<ToolResult("t9", ErrorResult)>>)}

CorrelationSources == {FileSource(l) : l \in SeqsUpTo(CorrelationLines, MaxEvents)}

\* An event with a type, whose message has a role and a content
MessageLine(type, role, content) ==
  JsonLine(JObj(<< <<"type", JStr(type)>>,
                   <<"message", JObj(<< <<"role", JStr(role)>>,
                                        <<"content", content>> >>)>> >>))

\* Prompts, prompts with a marker of a tool result, contents that are blank or
\* no string, other roles and types, and a message that is no mapping
MessageLines ==
  {MessageLine("user", "user", JStr("Please fix the bug")),
   MessageLine("user", "user", JStr("\t Fix the API \n")),
   MessageLine("user", "user", JStr("  ")),
   MessageLine("user", "user", JStr("see tool_use_id 7")),
   MessageLine("user", "user", JStr(" <system-reminder>be brief")),
   MessageLine("user", "user", JStr("a Tool_Result")),
   MessageLine("user", "user", JList(<<Text("Please fix the bug")>>)),
   MessageLine("user", "assistant", JStr("Done")),
   MessageLine("assistant", "user", JStr("Fixed")),
   JsonLine(JObj(<< <<"type", JStr("user")>>, <<"message", JStr("Please fix the bug")>> >>))}

MessageSources == {FileSource(l) : l \in SeqsUpTo(MessageLines, MaxEvents)}

\* Assistant events with tool_use items of every class, the results of some of
\* them, a tool_use item in a user event, a tool_use item without name, input
\* and id, and a Read whose input is no mapping
ClassificationLines ==
  {AssistantLine(<<ToolUse("r1", "Read", << <<"file_path", JStr("/src/c.py")>> >>),
                   Text("reading"),
                   ToolUse("m1", "MultiEdit", << <<"file_path", JStr("/src/b.py")>> >>)>>),
   AssistantLine(<<ToolUse("w1", "Write", << <<"file_path", JStr("/src/a.py")>>,
                                             <<"content", JStr("x = 1")>> >>),
                   ToolUse("e1", "Edit", << <<"file_path", JStr("/src/b.py")>>,
                                            <<"new_string", JStr("y = 2")>> >>)>>),
   AssistantLine(<<ToolUse("b1", "Bash", << <<"command", JStr("make test")>> >>),
                   ToolUse("b2", "bash", << <<"command", JStr("ls")>> >>),
                   ToolUse("k1", "Task", << <<"prompt", JStr("go")>> >>),
                   ToolUse("g1", "Grep", << <<"pattern", JStr("x")>> >>)>>),
   ResultsLine(<<ToolResult("e1", ErrorResult)>>),
   ResultsLine(<<ToolResult("b1", ErrorResult), ToolResult("r1", ErrorResult)>>),
   ResultsLine(<<ToolUse("u1", "Write", << <<"file_path", JStr("/src/u.py")>> >>)>>),
   AssistantLine(<<JObj(<< <<"type", JStr("tool_use")>> >>)>>),
   AssistantLine(<<JObj(<< <<"type", JStr("tool_use")>>, <<"id", JStr("r9")>>,
                           <<"name", JStr("Read")>>, <<"input", JStr("/src/c.py")>> >>)>>)}

ClassificationSources == {FileSource(l) : l \in SeqsUpTo(ClassificationLines, MaxEvents)}

\* Writes, edits, commands and a research tool; the items w2, e2, b2 and g2
\* failed when the transcript holds the line of their results
AccomplishmentLines ==
  {AssistantLine(<<ToolUse("w1", "Write", << <<"file_path", JStr("/src/a.py")>> >>),
                   ToolUse("w2", "Write", << <<"file_path", JStr("/src/b.py")>> >>),
                   ToolUse("e1", "Edit", << <<"file_path", JStr("/src/a.py")>> >>)>>),
   AssistantLine(<<ToolUse("e2", "Edit", << <<"file_path", JStr("/src/c.py")>> >>)>>),
   AssistantLine(<<ToolUse("b1", "Bash", << <<"command", JStr("run TESTS")>> >>),
                   ToolUse("b2", "Bash", << <<"command", JStr("npm install")>> >>)>>),
   AssistantLine(<<ToolUse("b3", "Bash", << <<"command", JStr("make all")>> >>)>>),
   AssistantLine(<<ToolUse("b2", "Bash", << <<"command", JStr("Yarn test")>> >>)>>),
   AssistantLine(<<ToolUse("g2", "Glob", << <<"pattern", JStr("*.py")>> >>)>>),
   ResultsLine(<<ToolResult("w2", ErrorResult)>>),
   ResultsLine(<<ToolResult("w2", ErrorResult), ToolResult("e2", ErrorResult),
                 ToolResult("b2", ErrorResult), ToolResult("g2", ErrorResult)>>)}

AccomplishmentSources == {FileSource(l) : l \in SeqsUpTo(AccomplishmentLines, MaxEvents)}

\* Prompts of 18, 50 and 51 characters, file operations on five paths, and the
\* failure of one of them
ContextLines ==
  {MessageLine("user", "user", JStr("Please fix the bug")),
   MessageLine("user", "user", JStr("Please refactor the payment module and add a test.")),
   MessageLine("user", "user", JStr("Please refactor the payment module and add 2 tests.")),
   AssistantLine(<<ToolUse("w1", "Write", << <<"file_path", JStr("/src/a.py")>> >>),
                   ToolUse("e2", "Edit", << <<"file_path", JStr("lib/b.py")>> >>),
                   ToolUse("r1", "Read", << <<"file_path", JStr("c.py")>> >>),
                   ToolUse("m1", "MultiEdit", << <<"file_path", JStr("/x/y/d.py")>> >>)>>),
   AssistantLine(<<ToolUse("r2", "Read", << <<"file_path", JStr("/e.py")>> >>)>>),
   ResultsLine(<<ToolResult("e2", ErrorResult)>>)}

ContextSources == {FileSource(l) : l \in SeqsUpTo(ContextLines, MaxEvents)}

AnalyzerSources ==
  DurationSources \cup CorrelationSources \cup MessageSources \cup ClassificationSources
  \cup AccomplishmentSources \cup ContextSources

InitAnalyzer == source \in AnalyzerSources /\ environ = [CLAUDE_HOOKS_SUMMARY_ENABLED |-> JNull, ENGINEER_NAME |-> JNull] /\ analyzer = TranscriptAnalyzer /\ calls = 0 /\ analysis = JNull /\ scenario = "none" /\ output = "" /\ raised = FALSE /\ text = "" /\ truncated = <<>>

NextAnalyzer == AnalyzeTranscript

SpecAnalyzer == InitAnalyzer /\ [][NextAnalyzer]_vars


(***************************************************************************)
(* The hook: the analyzer on a transcript, then the stop or notification   *)
(* summary of the analysis it returned.                                    *)
(***************************************************************************)
\* Prompts with a topic keyword, a Write, a Write whose path is no string, and a
\* line that makes the analysis fail
KeywordLines ==
  {MessageLine("user", "user", JStr("Fix the DB tests")),
   MessageLine("user", "user", JStr("Add auth to the API")),
   AssistantLine(<<ToolUse("w1", "Write", << <<"file_path", JStr("/src/a.py")>> >>)>>),
   BadPathLine,
   NumberLine}

KeywordSources == {FileSource(l) : l \in SeqsUpTo(KeywordLines, MaxEvents)}

HookSources == {MissingSource} \cup AccomplishmentSources \cup KeywordSources

InitHook == source \in HookSources /\ environ \in {e \in Environs : e.CLAUDE_HOOKS_SUMMARY_ENABLED = JNull} /\ analyzer = TranscriptAnalyzer /\ calls = 0 /\ analysis = JNull /\ scenario = "none" /\ output = "" /\ raised = FALSE /\ text = "" /\ truncated = <<>>

NextHook == AnalyzeTranscript \/ GenerateStopSummary \/ GenerateNotificationSummary

SpecHook == InitHook /\ [][NextHook]_vars

(***************************************************************************)
(* Properties of analyze_transcript.                                       *)
(***************************************************************************)
AnalysisFields ==
  {"session_id", "duration_minutes", "user_messages", "tool_events", "file_operations",
   "bash_commands", "errors", "assistant_responses", "key_accomplishments",
   "current_context"}

ListFields ==
  {"user_messages", "tool_events", "file_operations", "bash_commands", "errors",
   "assistant_responses", "key_accomplishments"}

Range(seq) == {seq[i] : i \in 1..Len(seq)}

\* analyze_transcript has returned and no rendering operation was called yet
Analyzed == calls > 0 /\ scenario = "none"

\* All lists empty, duration 0.0
EmptyListsZeroDuration(a) == a.duration_minutes = 0 /\ \A f \in ListFields : a[f] = <<>>

\* An exception occurred while the file was parsed or its events classified
AnalysisFailed == source.exists /\ AnalyzeTry(analyzer, source).raised

\* C1: analyze_transcript never raises and returns a SessionAnalysis for every
\* source (missing, unreadable, empty, with malformed lines or events of an
\* unexpected shape); when an exception occurred during parsing or event
\* classification, what it returns has all lists empty, duration 0.0 and a session
\* identifier 'analysis_error: <description>'.
C1_AnalyzeTotal ==
  Analyzed =>
    /\ ~raised
    /\ DOMAIN analysis = AnalysisFields
    /\ AnalysisFailed =>
         /\ EmptyListsZeroDuration(analysis)
         /\ IsStr(analysis.session_id)
         /\ StartsWith(analysis.session_id.s, "analysis_error: ")
         /\ Len(analysis.session_id.s) > Len("analysis_error: ")

\* An event that is no JSON object made the classification fail
C1_Witness ==
  /\ Analyzed /\ ~raised
  /\ source.exists /\ source.readable /\ NumberLine \in Range(source.lines)
  /\ analysis.session_id = JStr("analysis_error: 'int' object has no attribute 'get'")

\* Every line of the file is corrupted JSON
AllCorrupt(src) ==
  /\ src.exists /\ src.readable /\ src.lines # <<>>
  /\ \A i \in 1..Len(src.lines) : src.lines[i] = InvalidLine

\* C2 (amended): a source that does not exist and a source in which every line
\* is corrupted JSON both yield all lists empty and duration 0.0; the two results
\* differ in the session identifier ('transcript_not_found' against 'unknown') and
\* in the current context ('Unknown context' against 'Working on current task'),
\* and in no other field.
C2_MissingAndCorruptSentinels ==
  Analyzed =>
    /\ (~source.exists \/ AllCorrupt(source)) => EmptyListsZeroDuration(analysis)
    /\ ~source.exists =>
         /\ analysis.session_id = JStr("transcript_not_found")
         /\ analysis.current_context = "Unknown context"
    /\ AllCorrupt(source) =>
         /\ analysis.session_id = JStr("unknown")
         /\ analysis.current_context = "Working on current task"

C2_Witness ==
  /\ Analyzed /\ AllCorrupt(source) /\ Len(source.lines) > 1
  /\ analysis.current_context = "Working on current task"
  /\ analysis.current_context # analyze_transcript(analyzer, MissingSource).val.current_context

\* C2 as stated: the result for a wholly corrupted source equals the result for a
\* missing source in every field but the session identifier
C2_DifferOnlyInIdentifier ==
  (Analyzed /\ AllCorrupt(source)) =>
    /\ analysis.session_id # analyze_transcript(analyzer, MissingSource).val.session_id
    /\ \A f \in AnalysisFields \ {"session_id"} :
         analysis[f] = analyze_transcript(analyzer, MissingSource).val[f]

\* The lines of a transcript without those that are neither blank nor the text
\* of a JSON object
ObjectLines(lines) ==
  SelectSeq(lines, LAMBDA line : line.text = "blank"
                                 \/ (line.text = "json" /\ IsDict(line.value)))

\* C3: a non-empty line that does not parse as a JSON object (invalid JSON, or
\* valid JSON that is no object) is skipped: the analysis of a transcript equals
\* the analysis of the same transcript with those lines removed.
C3_NonObjectLinesSkipped ==
  (Analyzed /\ source.exists /\ source.readable) =>
    analysis = analyze_transcript(analyzer, FileSource(ObjectLines(source.lines))).val

\* What the events of one line on its own put into the containers
LineContainers(line) ==
  ProcessEvents(analyzer, NewContainers, ParseLines(<<line>>), ParseLines(<<line>>))

\* The elements that the lines put into a container, line after line
RECURSIVE InLineOrder(_, _)
InLineOrder(lines, field) ==
  IF lines = <<>> THEN <<>>
  ELSE LineContainers(Head(lines))[field] \o InLineOrder(Tail(lines), field)

\* What a tool event, a file operation and a command take from their own line
\* (the rest comes from the line of the tool result)
ToolCall(e) == [tool_name |-> e.tool_name, tool_input |-> e.tool_input]
FileAccess(op) ==
  [operation |-> op.operation, file_path |-> op.file_path,
   content_preview |-> op.content_preview]
CommandText(c) == [command |-> c.command, description |-> c.description]

Map(seq, Op(_)) == [i \in 1..Len(seq) |-> Op(seq[i])]

\* The six lists filled by the loop over the events hold, in the order of the
\* source lines, exactly what each line puts into them
EventListsInLineOrder ==
  /\ analysis.user_messages = InLineOrder(source.lines, "user_messages")
  /\ analysis.errors = InLineOrder(source.lines, "errors")
  /\ analysis.assistant_responses = InLineOrder(source.lines, "assistant_responses")
  /\ Map(analysis.tool_events, ToolCall)
       = Map(InLineOrder(source.lines, "tool_events"), ToolCall)
  /\ Map(analysis.file_operations, FileAccess)
       = Map(InLineOrder(source.lines, "file_operations"), FileAccess)
  /\ Map(analysis.bash_commands, CommandText)
       = Map(InLineOrder(source.lines, "bash_commands"), CommandText)

\* The place of an accomplishment among the five checks of
\* _identify_accomplishments (0: none of them)
AccomplishmentRank(s) ==
  CASE StartsWith(s, "Created ") -> 1
    [] StartsWith(s, "Modified ") -> 2
    [] s = "Ran tests" -> 3
    [] s = "Executed build commands" -> 4
    [] s = "Conducted code research" -> 5
    [] OTHER -> 0

\* C4 (amended): for every transcript whose analysis does not fail, user
\* messages, tool events, file operations, bash commands, errors and assistant
\* responses list their elements in the order of the source lines they derive
\* from, with no reordering and no deduplication; the accomplishments are at most
\* one string per check, in the fixed order Created, Modified, Ran tests, Executed
\* build commands, Conducted code research, whatever the order of the lines.  (A
\* transcript whose analysis fails yields empty lists.)
C4_EventListsInLineOrder ==
  (Analyzed /\ source.exists /\ source.readable) =>
    IF AnalysisFailed THEN \A f \in ListFields : analysis[f] = <<>>
    ELSE /\ EventListsInLineOrder
         /\ \A i, j \in 1..Len(analysis.key_accomplishments) :
              i < j => /\ AccomplishmentRank(analysis.key_accomplishments[i]) > 0
                       /\ AccomplishmentRank(analysis.key_accomplishments[i])
                            < AccomplishmentRank(analysis.key_accomplishments[j])

\* Commands of the first line and files of the second: the accomplishments name
\* the files first
C4_Witness ==
  /\ Analyzed /\ source = FileSource(<<BashLine, WriteEditLine>>)
  /\ Len(analysis.bash_commands) = 2 /\ Len(analysis.file_operations) = 2
  /\ analysis.bash_commands[1].command = JStr("npm Test")
  /\ analysis.file_operations[2].file_path = JStr("/src/b.py")
  /\ analysis.key_accomplishments
       = <<"Created 1 file(s)", "Modified 1 file(s)", "Ran tests",
           "Executed build commands">>

\* The lines that, on their own, give an accomplishment of the same check
OriginLines(accomplishment) ==
  {i \in 1..Len(source.lines) :
     \E a \in Range(_identify_accomplishments(
                      analyzer, LineContainers(source.lines[i]).file_operations,
                      LineContainers(source.lines[i]).bash_commands,
                      LineContainers(source.lines[i]).tool_events).val) :
       AccomplishmentRank(a) = AccomplishmentRank(accomplishment)}

\* C4 as stated: the accomplishments too are listed in the order of the source
\* lines they derive from
C4_AllListsInLineOrder ==
  (Analyzed /\ source.exists /\ source.readable /\ ~AnalysisFailed) =>
    /\ EventListsInLineOrder
    /\ \A i, j \in 1..Len(analysis.key_accomplishments) :
         i < j => \E a \in OriginLines(analysis.key_accomplishments[i]),
                     b \in OriginLines(analysis.key_accomplishments[j]) : a <= b

(***************************************************************************)
(* Properties of the rendering operations.                                 *)
(***************************************************************************)
SummaryEnabled == _is_summary_enabled(environ)

\* The fixed fallback pool of a scenario
FallbackPool(name) ==
  CASE name = "stop" -> Choices(fallback_stop_messages)
    [] name = "notification" -> Choices(fallback_notification_messages)
    [] name = "subagent" -> Choices(fallback_subagent_messages)

\* An exception was raised in the try block of the operation of a scenario
RenderingFailed(name) ==
  CASE name = "stop" -> StopSummaryTry(analysis).raised
    [] name = "notification" -> NotificationSummaryTry(environ, analysis).raised
    [] name = "subagent" -> SubagentSummaryTry(analysis).raised

\* C5: no rendering operation (stop, notification, subagent) raises to its
\* caller; when a failure is raised while rendering, the operation returns a
\* member of the fixed fallback pool of its scenario.
C5_RenderingTotal ==
  scenario # "none" =>
    /\ ~raised
    /\ RenderingFailed(scenario) => output \in FallbackPool(scenario)

\* Path(5) raised in _summarize_file_operations
C5_Witness ==
  /\ scenario = "stop" /\ SummaryEnabled /\ ~raised
  /\ source.exists /\ source.readable /\ source.lines = <<BadPathLine>>
  /\ StopSummaryTry(analysis).raised
  /\ output \in Choices(fallback_stop_messages)

\* What the operation of a scenario may return in an environment
Returned(name, env) ==
  CASE name = "stop" -> generate_stop_summary(env, analysis)
    [] name = "notification" -> generate_notification_summary(env, analysis)
    [] name = "subagent" -> generate_subagent_summary(env, analysis)

\* C6: with the summary-enabled switch off, every rendering operation returns a
\* member of the fixed fallback pool of its scenario (no heuristic text, no name
\* prefix, no truncation); with the switch unset it returns what it may return
\* with the switch on.
C6_SwitchOffForcesFallback ==
  scenario # "none" =>
    /\ environ.CLAUDE_HOOKS_SUMMARY_ENABLED = JStr("false") =>
         ~raised /\ output \in FallbackPool(scenario)
    /\ environ.CLAUDE_HOOKS_SUMMARY_ENABLED = JNull =>
         \E o \in Returned(scenario,
                           [environ EXCEPT !.CLAUDE_HOOKS_SUMMARY_ENABLED = JStr("true")]) :
           o.raised = raised /\ (~raised => o.val = output)

\* Switched off, with an engineer name and a current context to render
C6_Witness ==
  /\ scenario = "notification" /\ ~raised
  /\ environ.CLAUDE_HOOKS_SUMMARY_ENABLED = JStr("false")
  /\ environ.ENGINEER_NAME = JStr("Dan")
  /\ analysis.current_context = "Fixing the build"
  /\ output \in Choices(fallback_notification_messages)

\* C9: with summaries enabled, the stop summary of an analysis without
\* accomplishments, file operations and bash commands is a member of the fixed
\* stop fallback set, whatever its errors, user messages and tool events.
C9_NothingDoneStopFallback ==
  ( /\ scenario = "stop" /\ SummaryEnabled
    /\ analysis.key_accomplishments = <<>>
    /\ analysis.file_operations = <<>>
    /\ analysis.bash_commands = <<>> )
  => ~raised /\ output \in Choices(fallback_stop_messages)

C9_Witness ==
  /\ scenario = "stop" /\ SummaryEnabled
  /\ analysis.key_accomplishments = <<>>
  /\ analysis.file_operations = <<>>
  /\ analysis.bash_commands = <<>>
  /\ analysis.errors # <<>> /\ analysis.tool_events # <<>>
  /\ output \in Choices(fallback_stop_messages)

\* The file operations are one successful write and one successful edit, in
\* either order, of paths that are strings
OneWriteOneEdit(ops) ==
  /\ Len(ops) = 2
  /\ {ops[1].operation, ops[2].operation} = {"write", "edit"}
  /\ \A i \in 1..2 : ops[i].success /\ IsStr(ops[i].file_path)

Written(ops) == ops[CHOOSE i \in 1..2 : ops[i].operation = "write"]
Edited(ops) == ops[CHOOSE i \in 1..2 : ops[i].operation = "edit"]

\* The stop summary went through its try block without an exception
StopRendered ==
  scenario = "stop" /\ SummaryEnabled /\ ~StopSummaryTry(analysis).raised

\* C10 (amended): for file operations that are exactly one successful write and
\* one successful edit, the file clause of the stop summary is 'created <basename
\* of the written file>, modified 1 files', the created part first.
C10_CreatedThenModifiedCount ==
  (StopRendered /\ OneWriteOneEdit(analysis.file_operations)) =>
    StartsWith(output,
               "Completed: created " \o PathName(Written(analysis.file_operations).file_path.s)
               \o ", modified 1 files")

C10_Witness ==
  /\ StopRendered /\ source.exists /\ source.readable /\ source.lines = <<WriteEditLine>>
  /\ OneWriteOneEdit(analysis.file_operations)
  /\ output = "Completed: created a.py, modified 1 files"

\* C10 as stated: the clause is 'created <basename of the written file>, modified
\* <basename of the edited file>'
C10_CreatedThenModifiedName ==
  (StopRendered /\ OneWriteOneEdit(analysis.file_operations)) =>
    StartsWith(output,
               "Completed: created " \o PathName(Written(analysis.file_operations).file_path.s)
               \o ", modified " \o PathName(Edited(analysis.file_operations).file_path.s))

Window(t) == Prefix(t, max_tts_length)

\* The indexes from `from` on at which the window holds a space
SpaceIndexes(w, from) == {i \in from..(Len(w) - 1) : CharAt(w, i + 1) = " "}

\* The indexes from `from` on at which the window holds whitespace
WhitespaceIndexes(w, from) == {i \in from..(Len(w) - 1) : CharAt(w, i + 1) \in Whitespace}

Last(S) == CHOOSE m \in S : \A k \in S : k <= m

\* C8 (amended): a string of at most 80 characters is returned unchanged; a
\* longer string is cut to its first 80 characters, and if that window holds a
\* space at index 57 or later the result is the window cut back to the last such
\* space with no ellipsis, otherwise the result is the window without its
\* trailing whitespace, followed by '...' (so a 95-character candidate with no
\* whitespace in the last 24 characters of the window yields exactly 80
\* characters plus '...').
C8_TruncationRule ==
  truncated # <<>> =>
    /\ truncated[1] =
         IF Len(text) <= 80 THEN text
         ELSE IF SpaceIndexes(Window(text), 57) # {}
              THEN Prefix(Window(text), Last(SpaceIndexes(Window(text), 57)))
              ELSE RStrip(Window(text)) \o "..."
    /\ (Len(text) = 95 /\ WhitespaceIndexes(Window(text), 56) = {}) =>
         (truncated[1] = Window(text) \o "..." /\ Len(truncated[1]) = 83)

\* The only space of the window is at index 56: the ellipsis is appended
C8_Witness ==
  /\ truncated # <<>> /\ Len(text) > 80
  /\ SpaceIndexes(Window(text), 0) = {56}
  /\ WhitespaceIndexes(Window(text), 0) = {56}
  /\ truncated[1] = Window(text) \o "..."

\* C8 as stated: the window is cut back to its last space when it holds a space
\* at index 56 or later, and otherwise the whole window is followed by '...'
C8_TruncationRuleIndex56 ==
  truncated # <<>> =>
    /\ truncated[1] =
         IF Len(text) <= 80 THEN text
         ELSE IF SpaceIndexes(Window(text), 56) # {}
              THEN Prefix(Window(text), Last(SpaceIndexes(Window(text), 56)))
              ELSE Window(text) \o "..."
    /\ (Len(text) = 95 /\ SpaceIndexes(Window(text), 56) = {}) =>
         (truncated[1] = Window(text) \o "..." /\ Len(truncated[1]) = 83)

(***************************************************************************)
(* Properties of the clauses of the stop summary.                          *)
(***************************************************************************)
\* The texts of the successful commands of an analysis
SuccessfulTexts(a) ==
  {a.bash_commands[i].command.s :
     i \in {k \in 1..Len(a.bash_commands) : a.bash_commands[k].success}}

SuccessfulCount(a) ==
  Cardinality({k \in 1..Len(a.bash_commands) : a.bash_commands[k].success})

TestFlag(a) == \E c \in SuccessfulTexts(a) : Contains(Lower(c), "test")
BuildFlag(a) ==
  \E c \in SuccessfulTexts(a), k \in {"build", "compile", "npm run", "yarn", "make"} :
    Contains(Lower(c), k)
GitFlag(a) == \E c \in SuccessfulTexts(a) : StartsWith(c, "git")

\* The bash-command clause as the rule states it
CommandClause(a) ==
  IF SuccessfulCount(a) = 0 THEN ""
  ELSE IF ~TestFlag(a) /\ ~BuildFlag(a) /\ ~GitFlag(a)
  THEN "executed " \o ToString(SuccessfulCount(a)) \o " commands"
  ELSE Join(", ", (IF TestFlag(a) THEN <<"ran tests">> ELSE <<>>)
                  \o (IF BuildFlag(a) THEN <<"built project">> ELSE <<>>)
                  \o (IF GitFlag(a) THEN <<"updated git">> ELSE <<>>))

\* The stop summary of an analysis that holds commands and nothing else was
\* rendered: it is 'Completed: ' and the bash-command clause, or a fallback
\* message when the clause is empty
CommandsRendered ==
  /\ scenario = "stop" /\ SummaryEnabled
  /\ analysis.bash_commands # <<>>
  /\ analysis.file_operations = <<>> /\ analysis.errors = <<>>
  /\ analysis.key_accomplishments = <<>>
  /\ \A i \in 1..Len(analysis.bash_commands) : IsStr(analysis.bash_commands[i].command)

\* C11: the bash-command clause is, over the successful commands only, the
\* ', '-join in the order 'ran tests', 'built project', 'updated git' of the
\* phrases whose flag is set; 'executed N commands' exactly when no flag is set
\* and N > 0; empty when N = 0.  Three successful commands of which only one
\* matches, by containing 'npm run build', give 'built project'.
C11_CommandClause ==
  CommandsRendered =>
    /\ IF CommandClause(analysis) = "" THEN output \in Choices(fallback_stop_messages)
       ELSE output = "Completed: " \o CommandClause(analysis)
    /\ (output = "Completed: executed " \o ToString(SuccessfulCount(analysis)) \o " commands")
         <=> (SuccessfulCount(analysis) > 0
              /\ ~TestFlag(analysis) /\ ~BuildFlag(analysis) /\ ~GitFlag(analysis))
    /\ ( /\ Len(analysis.bash_commands) = 3 /\ SuccessfulCount(analysis) = 3
         /\ Cardinality({i \in 1..3 :
                           Contains(analysis.bash_commands[i].command.s, "npm run build")}) = 1
         /\ \A i \in 1..3 : analysis.bash_commands[i].command.s \in {"npm run build", "ls -la"} )
       => output = "Completed: built project"

\* Three successful commands, one of them 'npm run build'
C11_Witness ==
  /\ CommandsRendered
  /\ Len(analysis.bash_commands) = 3
  /\ [i \in 1..3 |-> analysis.bash_commands[i].command.s]
       = <<"ls -la", "npm run build", "ls -la">>
  /\ \A i \in 1..3 : analysis.bash_commands[i].success
  /\ output = "Completed: built project"


(***************************************************************************)
(* Properties of the notification summary.                                 *)
(***************************************************************************)
\* The current contexts that stand for 'no context': the one of an analysis
\* without user messages and the one of the empty analysis
SentinelContexts == {"Working on current task", "Unknown context"}

\* The primary rendering of the current context of the analysis
PrimaryRenderings ==
  {_truncate_for_tts(name_prefix \o "Working on: " \o analysis.current_context
                     \o ", needs your input") : name_prefix \in NamePrefixes(environ)}

\* What the operation returns when it falls through to the secondary context or
\* to the notification fallback
FallThroughRenderings ==
  LET recent_context == _generate_notification_context(analysis)
  IN IF recent_context.raised THEN Choices(fallback_notification_messages)
     ELSE IF recent_context.val # ""
     THEN {_truncate_for_tts(name_prefix \o recent_context.val \o ", needs your input") :
             name_prefix \in NamePrefixes(environ)}
     ELSE {name_prefix \o m : name_prefix \in NamePrefixes(environ),
                              m \in Choices(fallback_notification_messages)}

\* C12: the enabled notification summary is the primary rendering
\* '<optional name prefix>Working on: <context>, needs your input' if and only
\* if the current context is non-empty and no sentinel; for a sentinel context
\* ('Working on current task' of an analysis without user messages, or the
\* context of the empty analysis) the operation falls through to the secondary
\* context or the notification fallback.
C12_PrimaryIffNoSentinel ==
  (scenario = "notification" /\ SummaryEnabled) =>
    /\ (output \in PrimaryRenderings)
         <=> (analysis.current_context # "" /\ analysis.current_context \notin SentinelContexts)
    /\ analysis.current_context \in SentinelContexts => output \in FallThroughRenderings


(***************************************************************************)
(* Properties of the subagent summary.                                     *)
(***************************************************************************)
\* The number of tool events of the analysis that used a research tool
ResearchCount ==
  Cardinality({i \in 1..Len(analysis.tool_events) :
                 analysis.tool_events[i].tool_name
                   \in {JStr(t) : t \in {"WebFetch", "WebSearch", "Grep", "Glob", "LS"}}})

\* Every tool event of the analysis is named by a string
ToolNamesAreStrings ==
  \A i \in 1..Len(analysis.tool_events) : IsStr(analysis.tool_events[i].tool_name)

SubagentRendered == scenario = "subagent" /\ SummaryEnabled

SuccessfulReads ==
  Cardinality({i \in 1..Len(analysis.file_operations) :
                 /\ analysis.file_operations[i].operation = "read"
                 /\ analysis.file_operations[i].success})

\* C14: when no research tool was used, the enabled subagent summary is
\* 'Subagent analyzed N files' if and only if at least one successful read
\* operation exists, N being the number of successful reads (failed reads
\* neither trigger the message nor count); otherwise it is 'Subagent completed:
\* <first accomplishment>' if there is an accomplishment, else a member of the
\* subagent fallback pool.
C14_SuccessfulReadsCounted ==
  (SubagentRendered /\ ToolNamesAreStrings /\ ResearchCount = 0) =>
    /\ (\E n \in 1..Len(analysis.file_operations) :
          output = "Subagent analyzed " \o ToString(n) \o " files")
         <=> SuccessfulReads > 0
    /\ SuccessfulReads > 0
         => output = "Subagent analyzed " \o ToString(SuccessfulReads) \o " files"
    /\ SuccessfulReads = 0
         => IF analysis.key_accomplishments # <<>>
            THEN output = _truncate_for_tts("Subagent completed: "
                                            \o analysis.key_accomplishments[1])
            ELSE output \in Choices(fallback_subagent_messages)


(***************************************************************************)
(* Properties of the duration.                                             *)
(***************************************************************************)
\* The values that the events of the transcript carry under 'timestamp', in
\* source order
RECURSIVE CollectedTimestamps(_)
CollectedTimestamps(lines) ==
  IF lines = <<>> THEN <<>>
  ELSE (IF /\ Head(lines).text = "json" /\ IsDict(Head(lines).value)
           /\ Truthy(Get(Head(lines).value, "timestamp", JStr("")))
        THEN <<Get(Head(lines).value, "timestamp", JStr(""))>> ELSE <<>>)
       \o CollectedTimestamps(Tail(lines))

FirstTimestamp == CollectedTimestamps(source.lines)[1]
LastTimestamp == CollectedTimestamps(source.lines)[Len(CollectedTimestamps(source.lines))]

\* A timestamp parses: it is a string in ISO-8601 form ('Z' read as '+00:00')
Parses(timestamp) == IsStr(timestamp) /\ ~fromisoformat(ReplaceZ(timestamp.s)).raised

\* The point in time of a timestamp that parses, in seconds, and whether the
\* timestamp carries a UTC offset (one without offset is read as it stands)
Seconds(timestamp) == fromisoformat(ReplaceZ(timestamp.s)).val.secs
HasOffset(timestamp) == fromisoformat(ReplaceZ(timestamp.s)).val.aware

\* d tenths of a minute is secs seconds rounded to one decimal of a minute
IsRoundedToTenths(d, secs) == 6 * d - secs \in -3..3

DurationAnalyzed ==
  /\ Analyzed /\ source \in DurationSources

\* C15 (amended): with fewer than two events carrying a timestamp the duration is
\* 0.0; otherwise it is the difference between the last and the first collected
\* timestamp (of events of any type), in minutes rounded to one decimal
\* (00:00:00Z to 00:05:30Z gives 5.5), and 0.0 if either timestamp fails to
\* parse or if only one of the two carries a UTC offset.
C15_Duration ==
  DurationAnalyzed =>
    IF Len(CollectedTimestamps(source.lines)) < 2 THEN analysis.duration_minutes = 0
    ELSE IF ~Parses(FirstTimestamp) \/ ~Parses(LastTimestamp)
    THEN analysis.duration_minutes = 0
    ELSE IF HasOffset(FirstTimestamp) # HasOffset(LastTimestamp)
    THEN analysis.duration_minutes = 0
    ELSE /\ IsRoundedToTenths(analysis.duration_minutes,
                              Seconds(LastTimestamp) - Seconds(FirstTimestamp))
         /\ ( /\ FirstTimestamp = JStr("2024-01-01T00:00:00Z")
              /\ LastTimestamp = JStr("2024-01-01T00:05:30Z") )
            => analysis.duration_minutes = 55

\* Three timestamped events of three types: the one in the middle does not count
C15_Witness ==
  /\ DurationAnalyzed
  /\ source.lines = <<TimedLine("user", JStr("2024-01-01T00:00:00Z")),
                      TimedLine("system", JStr("2024-01-01T00:00:40Z")),
                      TimedLine("assistant", JStr("2024-01-01T00:05:30Z"))>>
  /\ analysis.duration_minutes = 55

\* C15: with fewer than two events carrying a timestamp the duration is 0.0;
\* otherwise it is the difference between the last and the first collected
\* timestamp, in minutes rounded to one decimal, and 0.0 if either timestamp
\* fails to parse.
C15_DurationZeroOnlyOnParseFailure ==
  DurationAnalyzed =>
    IF Len(CollectedTimestamps(source.lines)) < 2 THEN analysis.duration_minutes = 0
    ELSE IF ~Parses(FirstTimestamp) \/ ~Parses(LastTimestamp)
    THEN analysis.duration_minutes = 0
    ELSE IsRoundedToTenths(analysis.duration_minutes,
                           Seconds(LastTimestamp) - Seconds(FirstTimestamp))


(***************************************************************************)
(* Properties of the tool events.                                          *)
(***************************************************************************)
\* The content items of the user events of the transcript, in event order
RECURSIVE UserEntries(_)
UserEntries(lines) ==
  IF lines = <<>> THEN <<>>
  ELSE (IF /\ Head(lines).text = "json" /\ IsDict(Head(lines).value)
           /\ Get(Head(lines).value, "type", JNull) = JStr("user")
           /\ IsDict(Get(Head(lines).value, "message", JNull))
           /\ IsList(Get(Get(Head(lines).value, "message", JNull), "content", JNull))
        THEN Get(Get(Head(lines).value, "message", JNull), "content", JNull).l
        ELSE <<>>)
       \o UserEntries(Tail(lines))

\* The results of the entries whose tool_use_id is the identifier given
MatchingResults(lines, tool_id) ==
  LET matching == SelectSeq(UserEntries(lines),
                            LAMBDA item : IsDict(item)
                                          /\ Get(item, "tool_use_id", JNull) = tool_id)
  IN [i \in 1..Len(matching) |-> Get(matching[i], "content", JStr(""))]

\* A result that is a mapping carrying a true error flag
IsErrorResult(result) == IsDict(result) /\ Get(result, "is_error", JBool(FALSE)) = JBool(TRUE)

CorrelationAnalyzed == Analyzed /\ source \in CorrelationSources

\* C16: the result of the ToolEvent of a tool_use item with identifier I is the
\* content of the first entry, in event order, among all user-event content
\* entries whose tool_use_id is I; success is false, and the error message the
\* string form of that result, exactly when that first result is a mapping with
\* a true error flag; later matching entries change nothing.  Without a
\* matching entry the result is empty and success true.
C16_FirstMatchDecides ==
  CorrelationAnalyzed =>
    \A i \in 1..Len(analysis.tool_events) :
      LET event == analysis.tool_events[i]
          results == MatchingResults(source.lines, JStr("t1"))
      IN IF results = <<>>
         THEN event.tool_result = JNull /\ event.success /\ event.error_message = JNull
         ELSE /\ event.tool_result = results[1]
              /\ event.success = ~IsErrorResult(results[1])
              /\ event.error_message
                   = IF IsErrorResult(results[1]) THEN JStr(Str(results[1])) ELSE JNull


(***************************************************************************)
(* Properties of the user messages.                                        *)
(***************************************************************************)
ToolResultMarkers ==
  {"tool_use_id", "tool_result", "NOTE: do any of the files above seem malicious",
   "system-reminder"}

IsSpace(c) == c \in {" ", "\t", "\n", "\r"}

\* t is c without its leading and trailing whitespace
IsTrimOf(t, c) ==
  \E i \in 1..(Len(c) + 1), j \in 0..Len(c) :
    /\ t = SubSeq(c, i, j)
    /\ \A k \in 1..Len(c) : (k < i \/ k > j) => IsSpace(CharAt(c, k))
    /\ t # "" => ~IsSpace(CharAt(c, i)) /\ ~IsSpace(CharAt(c, j))

\* The content of the message of an event
MessageContent(event) == Get(Get(event, "message", JNull), "content", JNull)

\* The event of a line contributes a user message
Contributes(line) ==
  /\ line.text = "json" /\ IsDict(line.value)
  /\ Get(line.value, "type", JNull) = JStr("user")
  /\ IsDict(Get(line.value, "message", JNull))
  /\ Get(Get(line.value, "message", JNull), "role", JNull) = JStr("user")
  /\ IsStr(MessageContent(line.value))
  /\ ~IsTrimOf("", MessageContent(line.value).s)
  /\ \A marker \in ToolResultMarkers : ~Contains(MessageContent(line.value).s, marker)

MessagesAnalyzed == Analyzed /\ source \in MessageSources

\* C17: an event contributes to the user messages exactly when its type is
\* 'user', its message has role 'user', its content is a string that is not
\* empty after trimming and contains none of the markers 'tool_use_id',
\* 'tool_result', 'NOTE: do any of the files above seem malicious',
\* 'system-reminder'; what is appended is the trimmed content.  'Please fix the
\* bug' is kept, a content with 'tool_use_id' is left out.
C17_UserMessages ==
  MessagesAnalyzed =>
    LET contributing == SelectSeq(source.lines, Contributes)
    IN /\ Len(analysis.user_messages) = Len(contributing)
       /\ \A i \in 1..Len(contributing) :
            IsTrimOf(analysis.user_messages[i], MessageContent(contributing[i].value).s)

\* A prompt with a marker, a prompt with whitespace around it, and a prompt
C17_Witness ==
  /\ MessagesAnalyzed
  /\ source.lines = <<MessageLine("user", "user", JStr("see tool_use_id 7")),
                      MessageLine("user", "user", JStr("\t Fix the API \n")),
                      MessageLine("user", "user", JStr("Please fix the bug"))>>
  /\ analysis.user_messages = <<"Fix the API", "Please fix the bug">>


\* The tool_use items of the assistant events of the transcript, in order
RECURSIVE ToolUseItems(_)
ToolUseItems(lines) ==
  IF lines = <<>> THEN <<>>
  ELSE (IF /\ Head(lines).text = "json" /\ IsDict(Head(lines).value)
           /\ Get(Head(lines).value, "type", JNull) = JStr("assistant")
           /\ IsDict(Get(Head(lines).value, "message", JNull))
           /\ IsList(MessageContent(Head(lines).value))
        THEN SelectSeq(MessageContent(Head(lines).value).l,
                       LAMBDA item : IsDict(item)
                                     /\ Get(item, "type", JNull) = JStr("tool_use"))
        ELSE <<>>)
       \o ToolUseItems(Tail(lines))

\* The kind of file operation of a tool name
FileKinds == [Read |-> "read", Write |-> "write", Edit |-> "edit", MultiEdit |-> "edit"]

NamedIn(event, names) == \E name \in names : event.tool_name = JStr(name)

ClassificationAnalyzed == Analyzed /\ source \in ClassificationSources /\ ~AnalysisFailed

SuccessfulOperations(kind) ==
  Cardinality({i \in 1..Len(analysis.file_operations) :
                 /\ analysis.file_operations[i].operation = kind
                 /\ analysis.file_operations[i].success})

\* Some successful command contains one of the words, whatever the case
SomeSuccessfulCommand(words) ==
  \E i \in 1..Len(analysis.bash_commands), word \in words :
    /\ analysis.bash_commands[i].success
    /\ Contains(Lower(analysis.bash_commands[i].command.s), word)

\* The accomplishments that the five checks give
ExpectedAccomplishments ==
  {"Created " \o ToString(n) \o " file(s)" :
     n \in {SuccessfulOperations("write")} \ {0}}
  \cup {"Modified " \o ToString(n) \o " file(s)" :
          n \in {SuccessfulOperations("edit")} \ {0}}
  \cup (IF SomeSuccessfulCommand({"test"}) THEN {"Ran tests"} ELSE {})
  \cup (IF SomeSuccessfulCommand({"build", "compile", "npm", "yarn"})
        THEN {"Executed build commands"} ELSE {})
  \cup (IF ResearchCount > 0 THEN {"Conducted code research"} ELSE {})

AccomplishmentsAnalyzed == Analyzed /\ source \in AccomplishmentSources

\* C19: the accomplishments hold each of the five phrases at most once and
\* exactly when its condition holds: 'Created N file(s)' iff N > 0 successful
\* writes, 'Modified N file(s)' iff N > 0 successful edits, 'Ran tests' iff a
\* successful command contains 'test' in any case, 'Executed build commands' iff
\* a successful command contains 'build', 'compile', 'npm' or 'yarn',
\* 'Conducted code research' iff a tool event, successful or not, is named
\* WebFetch, WebSearch, Grep, Glob or LS.  Failed file operations and failed
\* commands do not contribute.
C19_Accomplishments ==
  AccomplishmentsAnalyzed =>
    /\ Range(analysis.key_accomplishments) = ExpectedAccomplishments
    /\ Len(analysis.key_accomplishments) = Cardinality(ExpectedAccomplishments)

\* Two writes of which one failed, an edit, a successful 'run TESTS', a failed
\* 'npm install', and the failed results
C19_Witness ==
  /\ AccomplishmentsAnalyzed
  /\ Len(analysis.file_operations) = 3 /\ SuccessfulOperations("write") = 1
  /\ Len(analysis.bash_commands) = 2
  /\ \E i \in 1..2 : /\ ~analysis.bash_commands[i].success
                     /\ analysis.bash_commands[i].command = JStr("npm install")
  /\ analysis.key_accomplishments = <<"Created 1 file(s)", "Modified 1 file(s)", "Ran tests">>


\* The part of a path after its last '/'
RECURSIVE BaseName(_)
BaseName(path) ==
  IF \E i \in 1..Len(path) : CharAt(path, i) = "/"
  THEN BaseName(SubSeq(path, 1 + CHOOSE i \in 1..Len(path) : CharAt(path, i) = "/",
                       Len(path)))
  ELSE path

\* The most recent user message, cut to 50 characters and '...' if it is longer
RecentMessage ==
  LET message == analysis.user_messages[Len(analysis.user_messages)]
  IN IF Len(message) > 50 THEN SubSeq(message, 1, 50) \o "..." ELSE message

\* The base filenames of the last up to 3 file operations, in order
RecentFileNames ==
  LET n == Len(analysis.file_operations)
      from == IF n > 3 THEN n - 2 ELSE 1
  IN [i \in 1..(n - from + 1) |->
        BaseName(analysis.file_operations[from + i - 1].file_path.s)]

ContextAnalyzed == Analyzed /\ source \in ContextSources

\* C20: without user messages the context is 'Working on current task';
\* otherwise it starts with the most recent user message, cut to its first 50
\* characters plus '...' if longer than 50; if there is a file operation (of any
\* kind, successful or not) a clause naming the base filenames of the last up to
\* 3 file operations, in order, follows after ' - '; without file operations the
\* context is the (cut) message.
C20_CurrentContext ==
  ContextAnalyzed =>
    analysis.current_context
      = IF analysis.user_messages = <<>> THEN "Working on current task"
        ELSE IF analysis.file_operations = <<>> THEN RecentMessage
        ELSE RecentMessage \o " - working on " \o Join(", ", RecentFileNames)

\* A prompt of 51 characters and four file operations, one of them failed
C20_Witness ==
  /\ ContextAnalyzed
  /\ Len(analysis.file_operations) = 4
  /\ ~analysis.file_operations[2].success
  /\ analysis.current_context
       = "Please refactor the payment module and add 2 tests... - working on b.py, c.py, d.py"


(***************************************************************************)
(* Properties of the composition of the stop summary.                      *)
(***************************************************************************)
\* The successful file operations of a kind, in order
SuccessfulOf(a, kind) ==
  SelectSeq(a.file_operations, LAMBDA op : op.operation = kind /\ op.success)

\* The file-operation clause as the rule states it
CreatedPart(a) ==
  LET created == SuccessfulOf(a, "write")
  IN IF created = <<>> THEN <<>>
     ELSE IF Len(created) = 1 THEN <<"created " \o BaseName(created[1].file_path.s)>>
     ELSE <<"created " \o ToString(Len(created)) \o " files">>

ModifiedPart(a) ==
  LET modified == SuccessfulOf(a, "edit")
  IN IF modified = <<>> THEN <<>>
     ELSE IF Len(modified) = 1 /\ CreatedPart(a) = <<>>
     THEN <<"modified " \o BaseName(modified[1].file_path.s)>>
     ELSE <<"modified " \o ToString(Len(modified)) \o " files">>

FileClause(a) == Join(", ", CreatedPart(a) \o ModifiedPart(a))

\* The error clause as the rule states it
ErrorClause(a) ==
  IF Len(a.errors) = 0 THEN ""
  ELSE IF Len(a.errors) = 1 THEN "resolved 1 error"
  ELSE "resolved " \o ToString(Len(a.errors)) \o " errors"

\* The non-empty clauses in the order file operations, commands, errors
Clauses(a) ==
  SelectSeq(<<FileClause(a), CommandClause(a), ErrorClause(a)>>, LAMBDA clause : clause # "")

\* The enabled stop summary of an analysis with some activity was rendered (the
\* file paths and the commands being strings)
ActivityRendered ==
  /\ scenario = "stop" /\ SummaryEnabled
  /\ \A i \in 1..Len(analysis.file_operations) : IsStr(analysis.file_operations[i].file_path)
  /\ \A i \in 1..Len(analysis.bash_commands) : IsStr(analysis.bash_commands[i].command)
  /\ \/ analysis.key_accomplishments # <<>>
     \/ analysis.file_operations # <<>>
     \/ analysis.bash_commands # <<>>

\* C21 (amended): with some activity present and at least one clause non-empty,
\* the enabled stop summary is the truncation of 'Completed: ' followed by the
\* non-empty clauses joined with ', ' in the order file-operation clause,
\* bash-command clause, error clause; the error clause is 'resolved 1 error'
\* for one error string, 'resolved N errors' for N > 1, empty for none.
C21_StopComposition ==
  (ActivityRendered /\ Clauses(analysis) # <<>>) =>
    output = _truncate_for_tts("Completed: " \o Join(", ", Clauses(analysis)))

\* Three clauses, too long for the output
C21_Witness ==
  /\ ActivityRendered
  /\ Len(Clauses(analysis)) = 3 /\ Len(analysis.errors) = 2
  /\ Len("Completed: " \o Join(", ", Clauses(analysis))) > max_tts_length
  /\ output # "Completed: " \o Join(", ", Clauses(analysis))
  /\ output = _truncate_for_tts("Completed: " \o Join(", ", Clauses(analysis)))

\* C21: with some activity present, the enabled stop summary is the truncation
\* of 'Completed: ' followed by the non-empty clauses joined with ', ' in the
\* order file-operation clause, bash-command clause, error clause.
C21_StopCompositionAnyActivity ==
  ActivityRendered =>
    output = _truncate_for_tts("Completed: " \o Join(", ", Clauses(analysis)))


\* The enabled stop summary of an analysis that holds file operations and
\* nothing else was rendered
FilesRendered ==
  /\ scenario = "stop" /\ SummaryEnabled
  /\ analysis \in FileAnalyses /\ analysis.file_operations # <<>>

\* C22: counting only successful operations, the created part is 'created
\* <basename>' for exactly one write and 'created N files' for N > 1; the
\* modified part is 'modified <basename>' only for exactly one edit and no
\* created part, and 'modified N files' for more than one edit or for one edit
\* next to a created file; reads and failed operations never appear, and the
\* clause is empty without a successful write or edit.
C22_FileClause ==
  FilesRendered =>
    /\ IF FileClause(analysis) = "" THEN output \in Choices(fallback_stop_messages)
       ELSE output = _truncate_for_tts("Completed: " \o FileClause(analysis))
    /\ (FileClause(analysis) = "")
         <=> (SuccessfulOf(analysis, "write") = <<>> /\ SuccessfulOf(analysis, "edit") = <<>>)
    /\ \A i \in 1..Len(analysis.file_operations) :
         LET op == analysis.file_operations[i]
         IN (op.operation = "read" \/ ~op.success)
              => ~Contains(output, BaseName(op.file_path.s))

\* One successful edit next to a failed write and a read: the edit is named
C22_Witness ==
  /\ FilesRendered
  /\ Len(analysis.file_operations) = 3
  /\ Len(SuccessfulOf(analysis, "edit")) = 1
  /\ \E i \in 1..3 : /\ analysis.file_operations[i].operation = "write"
                     /\ ~analysis.file_operations[i].success
  /\ \E i \in 1..3 : analysis.file_operations[i].operation = "read"
  /\ output = "Completed: modified b.py"


(***************************************************************************)
(* Properties of the summaries of the analyses that the analyzer returns.  *)
(***************************************************************************)
\* The enabled stop summary of an analysis returned by analyze_transcript
StopOfAnalyzed == scenario = "stop" /\ SummaryEnabled /\ calls > 0

\* Every file operation of the analysis has a string as its path
PathsAreStrings ==
  \A i \in 1..Len(analysis.file_operations) : IsStr(analysis.file_operations[i].file_path)

\* An accomplishment other than 'Conducted code research'
WorkAccomplishments ==
  {accomplishment \in Range(analysis.key_accomplishments) :
     \/ StartsWith(accomplishment, "Created ") \/ StartsWith(accomplishment, "Modified ")
     \/ accomplishment \in {"Ran tests", "Executed build commands"}}

\* The first two accomplishments, joined
FirstAccomplishments ==
  Join(", ", SubSeq(analysis.key_accomplishments, 1,
                    IF Len(analysis.key_accomplishments) > 2 THEN 2
                    ELSE Len(analysis.key_accomplishments)))

NotificationOfAnalyzed == scenario = "notification" /\ SummaryEnabled /\ calls > 0

\* The primary check on the current context fails
NoCurrentContext == analysis.current_context \in {"", "Unknown context"}

TopicKeywords == {"database", "db", "test", "testing", "auth", "authentication", "api", "endpoint"}

\* The last user message of the analysis holds a topic keyword
LastMessageHasTopic ==
  /\ analysis.user_messages # <<>>
  /\ \E keyword \in TopicKeywords :
       Contains(Lower(analysis.user_messages[Len(analysis.user_messages)]), keyword)

\* The secondary contexts that the analysis could give
SecondaryContexts ==
  {"Working on multiple files", "Setting up database", "Working on tests",
   "Implementing authentication", "Building API"}
  \cup {"Working on " \o BaseName(analysis.file_operations[i].file_path.s) :
          i \in {k \in 1..Len(analysis.file_operations) :
                   IsStr(analysis.file_operations[k].file_path)}}

SecondaryRenderings ==
  {_truncate_for_tts(name_prefix \o secondary \o ", needs your input") :
     name_prefix \in NamePrefixes(environ), secondary \in SecondaryContexts}

\* C24: for every SessionAnalysis produced by analyze_transcript, the enabled
\* notification summary never is the secondary form '<secondary context>, needs
\* your input': whenever the primary check on the current context fails, the
\* analysis has no file operations and its last user message holds no topic
\* keyword, so the output is the primary form 'Working on: <context>, needs your
\* input' (as _truncate_for_tts leaves it) or the optional name prefix and a
\* notification fallback.
C24_NoSecondaryContext ==
  NotificationOfAnalyzed =>
    /\ output \notin SecondaryRenderings
    /\ NoCurrentContext => (analysis.file_operations = <<>> /\ ~LastMessageHasTopic)
    /\ IF NoCurrentContext
       THEN output \in {name_prefix \o m : name_prefix \in NamePrefixes(environ),
                                           m \in Choices(fallback_notification_messages)}
       ELSE output \in PrimaryRenderings

\* A prompt about tests and a Write, lost with the analysis that fails on the
\* third line: the fallback, here with the name prefix
C24_Witness ==
  /\ NotificationOfAnalyzed
  /\ source \in KeywordSources
  /\ Len(source.lines) = 3 /\ source.lines[3] = NumberLine
  /\ source.lines[1] = MessageLine("user", "user", JStr("Fix the DB tests"))
  /\ NoCurrentContext
  /\ environ.ENGINEER_NAME = JStr("Dan")
  /\ \E m \in Choices(fallback_notification_messages) : output = "Dan, " \o m

=============================================================================
